---- MODULE Spec2Model ----
(***************************************************************************)
(* Virtual-Relay: the order quantity calculator (orders.py), the trailer   *)
(* allocator (relay_logic.py) and the trailer lifecycle handlers (app.py), *)
(* as one state machine.                                                   *)
(*                                                                         *)
(* Encoding of Python values:                                              *)
(*   str             a sequence of one-character strings                   *)
(*   None (a str)    the tuple None, which is no text                      *)
(*   None (a time)   NoTimestamp; clock readings are 1, 2, ...             *)
(*   None / tuple    overload_from: <<>> or <<name, stacks>>               *)
(*   a return value  a record with a field kind                            *)
(***************************************************************************)
EXTENDS Integers, Sequences, FiniteSets, TLC

VARIABLES
    products,           \* OrderSystem.products: product_number -> Product
    orders,             \* OrderSystem.orders, in insertion order
    input,              \* [product_number, units_ordered] handed to calculate_order_quantities
    location,           \* the Location object between its construction and assign_trailers
    current_locations,  \* app.py's global current_locations
    locations,          \* RelaySystem.locations
    now,                \* datetime.now(), in whole seconds
    result,             \* what the last call returned
    pc,                 \* position of each concurrently running handler
    frame               \* the local variables of each concurrently running handler

vars == <<products, orders, input, location, current_locations, locations, now, result, pc, frame>>

\* what the trailer handlers never touch
otherVars == <<products, orders, input, location, pc, frame>>

-----------------------------------------------------------------------------
(* Bounds of the model *)

MaxStacks == 300        \* largest total_stacks handed to assign_trailers alone
MaxClock == 2           \* the clock advances at most to this second
MaxAssignCalls == 2     \* assign_trailers calls on the one Location of SpecAlloc
MaxUnits == 200         \* largest units_ordered handed to calculate_order_quantities
MaxUnitsPerTray == 12   \* largest units_per_tray in a catalog
MaxStackHeight == 17    \* largest stack_height in a catalog
MaxOrders == 2          \* create_order is called while fewer orders are stored
MaxBatch == 3           \* most orders in a batch handed to the relay generations
MaxSaved == 2           \* most orders in a batch written to the orders file

(* Program constants *)

TrailerCapacity == 98   \* min(stacks_remaining, 98)
NoTimestamp == 0        \* dispatch_timestamp = None

-----------------------------------------------------------------------------
(* Python strings *)

None == <<"None">>

Whitespace == {" "}

Digits == {"0", "1", "2", "3", "4", "5", "6", "7", "8", "9"}

\* bool(s) for s a str or None
Truthy(s) == s # None /\ s # <<>>

RECURSIVE LStrip(_)
LStrip(s) ==
    IF s # <<>> /\ Head(s) \in Whitespace THEN LStrip(Tail(s)) ELSE s

RECURSIVE RStrip(_)
RStrip(s) ==
    IF s # <<>> /\ s[Len(s)] \in Whitespace
    THEN RStrip(SubSeq(s, 1, Len(s) - 1))
    ELSE s

\* str.strip()
Strip(s) == RStrip(LStrip(s))

\* the position of the first "_" of s, 0 when there is none
RECURSIVE FirstUnderscore(_, _)
FirstUnderscore(s, i) ==
    IF i > Len(s) THEN 0
    ELSE IF s[i] = "_" THEN i
    ELSE FirstUnderscore(s, i + 1)

\* s.split("_", 1), for s holding a "_"
SplitOnce(s) ==
    LET i == FirstUnderscore(s, 1)
    IN  <<SubSeq(s, 1, i - 1), SubSeq(s, i + 1, Len(s))>>

DigitValue(c) ==
    CASE c = "0" -> 0 [] c = "1" -> 1 [] c = "2" -> 2 [] c = "3" -> 3
      [] c = "4" -> 4 [] c = "5" -> 5 [] c = "6" -> 6 [] c = "7" -> 7
      [] c = "8" -> 8 [] c = "9" -> 9

\* whether int(s) succeeds, for s over letters, digits and "_": digits, with
\* single underscores allowed between them
IsIntLiteral(s) ==
    /\ s # <<>>
    /\ s[1] \in Digits
    /\ s[Len(s)] \in Digits
    /\ \A i \in 1..Len(s) : s[i] \in Digits \cup {"_"}
    /\ \A i \in 1..(Len(s) - 1) : ~(s[i] = "_" /\ s[i + 1] = "_")

\* int(s), for s with IsIntLiteral(s)
RECURSIVE IntOf(_, _)
IntOf(s, acc) ==
    IF s = <<>> THEN acc
    ELSE IF Head(s) = "_" THEN IntOf(Tail(s), acc)
    ELSE IntOf(Tail(s), 10 * acc + DigitValue(Head(s)))

\* str(n) for n >= 0, the inverse the handlers' callers use to build identifiers
RECURSIVE StrOf(_)
StrOf(n) ==
    LET d == <<"0", "1", "2", "3", "4", "5", "6", "7", "8", "9">>
    IN  IF n < 10 THEN <<d[n + 1]>> ELSE StrOf(n \div 10) \o <<d[(n % 10) + 1]>>

Min(a, b) == IF a <= b THEN a ELSE b

\* a slip: the quotient truncated, a // b
CeilAsFloor(a, b) == a \div b

\* math.ceil(a / b) for integers a and b # 0 (the float quotient is exact
\* below 2^53): a / b is (-a) / (-b), taken with a positive divisor
Ceil(a, b) ==
    LET n == IF b < 0 THEN -a ELSE a
        d == IF b < 0 THEN -b ELSE b
    IN  IF n % d = 0 THEN n \div d ELSE (n \div d) + 1

\* a % b for integers a and b # 0: Python's result has the sign of b
PyMod(a, b) == IF b > 0 THEN a % b ELSE -((-a) % (-b))

-----------------------------------------------------------------------------
(* relay_logic.py: Trailer and Location *)

\* random.randint(100000000, 999999999): the two ends of the range
LdNumbers == {100000000, 999999999}

\* Trailer.__init__
Trailer(number, stacks, order_info, ld) ==
    [number |-> number,
     stacks |-> stacks,
     overload_from |-> <<>>,
     order_info |-> order_info,
     ld_number |-> ld,
     trailer_number |-> <<>>,
     seal_number |-> <<>>,
     dispatched |-> FALSE,
     dispatch_timestamp |-> NoTimestamp]

\* Location.__init__
Location(name, bread_trays, bulk_trays, cake_pallets, its_orders) ==
    LET total_bread_stacks == IF bread_trays > 0 THEN Ceil(bread_trays, 17) ELSE 0
        total_bulk_stacks == IF bulk_trays > 0 THEN Ceil(bulk_trays, 30) ELSE 0
    IN  [name |-> name,
         bread_trays |-> bread_trays,
         bulk_trays |-> bulk_trays,
         cake_pallets |-> cake_pallets,
         orders |-> its_orders,
         total_bread_stacks |-> total_bread_stacks,
         total_bulk_stacks |-> total_bulk_stacks,
         total_stacks |-> total_bread_stacks + total_bulk_stacks,
         total_trays |-> IF bread_trays # 0 \/ bulk_trays # 0
                         THEN bread_trays + bulk_trays ELSE 0,
         trailers |-> <<>>]

\* the number of passes of assign_trailers' while loop
RECURSIVE LoopCount(_)
LoopCount(stacks_remaining) ==
    IF stacks_remaining > 0
    THEN 1 + LoopCount(stacks_remaining - Min(stacks_remaining, TrailerCapacity))
    ELSE 0

\* a slip: each new trailer put at the front of the list (insert(0, ...))
RECURSIVE AssignLoopPrepending(_, _, _, _, _)
AssignLoopPrepending(trailers, stacks_remaining, trailer_number, order_info, lds) ==
    IF stacks_remaining > 0
    THEN LET count == Min(stacks_remaining, TrailerCapacity)
         IN  AssignLoopPrepending(<<Trailer(trailer_number, count, order_info, Head(lds))>>
                                      \o trailers,
                                  stacks_remaining - count,
                                  trailer_number + 1,
                                  order_info,
                                  Tail(lds))
    ELSE trailers

\* a slip: the loop written "while stacks_remaining >= 0", stopped after the
\* trailer that empties it
RECURSIVE AssignLoopOffByOne(_, _, _, _, _)
AssignLoopOffByOne(trailers, stacks_remaining, trailer_number, order_info, lds) ==
    LET count == Min(stacks_remaining, TrailerCapacity)
        more == Append(trailers,
                       Trailer(trailer_number, count, order_info,
                               IF lds = <<>> THEN 100000000 ELSE Head(lds)))
    IN  IF stacks_remaining - count > 0
        THEN AssignLoopOffByOne(more, stacks_remaining - count, trailer_number + 1,
                                order_info, Tail(lds))
        ELSE more

\* the while loop of Location.assign_trailers; lds are the load numbers
\* random.randint returns, one per pass
RECURSIVE AssignLoop(_, _, _, _, _)
AssignLoop(trailers, stacks_remaining, trailer_number, order_info, lds) ==
    IF stacks_remaining > 0
    THEN LET count == Min(stacks_remaining, TrailerCapacity)
         IN  AssignLoop(Append(trailers,
                               Trailer(trailer_number, count, order_info, Head(lds))),
                        stacks_remaining - count,
                        trailer_number + 1,
                        order_info,
                        Tail(lds))
    ELSE trailers

\* Location.assign_trailers
assign_trailers(loc, order_info, lds) ==
    [loc EXCEPT !.trailers = AssignLoop(loc.trailers, loc.total_stacks, 1, order_info, lds)]

\* the load numbers one assign_trailers call may draw
LdDraws(loc) == [1..LoopCount(loc.total_stacks) -> LdNumbers]

-----------------------------------------------------------------------------
(* Grouping a batch by location, as a Python dict keeps its keys: in the   *)
(* order each key was first inserted                                       *)

\* dict.get(key, default)
Get(d, key, default) == IF key \in DOMAIN d THEN d[key] ELSE default

\* a slip: a name filed under a key that equals it once both are stripped
RECURSIVE GroupKeysStripped(_, _)
GroupKeysStripped(names, keys) ==
    IF names = <<>> THEN keys
    ELSE IF \E i \in 1..Len(keys) : Strip(keys[i]) = Strip(Head(names))
         THEN GroupKeysStripped(Tail(names), keys)
         ELSE GroupKeysStripped(Tail(names), Append(keys, Head(names)))

\* the keys of location_orders after the grouping loop over names
RECURSIVE GroupKeys(_, _)
GroupKeys(names, keys) ==
    IF names = <<>> THEN keys
    ELSE IF \E i \in 1..Len(keys) : keys[i] = Head(names)
         THEN GroupKeys(Tail(names), keys)
         ELSE GroupKeys(Tail(names), Append(keys, Head(names)))

\* location_orders[key]: the entries of batch whose name is key, in order
RECURSIVE GroupOf(_, _, _)
GroupOf(batch, names, key) ==
    IF batch = <<>> THEN <<>>
    ELSE IF Head(names) = key
         THEN <<Head(batch)>> \o GroupOf(Tail(batch), Tail(names), key)
         ELSE GroupOf(Tail(batch), Tail(names), key)

RECURSIVE SumField(_, _)
SumField(seq, f) ==
    IF seq = <<>> THEN 0 ELSE Get(Head(seq), f, 0) + SumField(Tail(seq), f)

-----------------------------------------------------------------------------
(* app.py: create_relay_from_orders_data and create_relay *)

\* the Location create_relay_from_orders_data builds for one key, before its
\* assign_trailers call
LocationFromData(location_name, location_orders_list) ==
    [Location(location_name, SumField(location_orders_list, "total_trays"), 0, 0, <<>>)
        EXCEPT !.total_stacks = SumField(location_orders_list, "total_stacks")]

\* the names under which create_relay_from_orders_data files the orders
DataNames(orders_data) ==
    [i \in 1..Len(orders_data) |-> Get(orders_data[i], "location", <<"U","n","k","n","o","w","n">>)]

\* the Location objects of create_relay_from_orders_data, trailers not yet assigned
LocationsFromData(orders_data) ==
    LET names == DataNames(orders_data)
        keys == GroupKeys(names, <<>>)
    IN  [k \in 1..Len(keys) |-> LocationFromData(keys[k], GroupOf(orders_data, names, keys[k]))]

\* create_relay_from_orders_data; draws[k] are the load numbers drawn for the
\* k-th location
create_relay_from_orders_data(orders_data, draws) ==
    LET locs == LocationsFromData(orders_data)
    IN  [k \in 1..Len(locs) |-> assign_trailers(locs[k], <<>>, draws[k])]

-----------------------------------------------------------------------------
(* app.py: the trailer handlers, each as one call *)

Ret(kind) == [kind |-> kind]

\* the nested search loops of the handlers: the first trailer, in iteration
\* order, of a location named location_name whose number is trailer_num, as
\* <<i, j>>; <<0, 0>> when the loops end without a match
FindTrailer(locs, location_name, trailer_num) ==
    LET hits == {ij \in UNION {{<<i, j>> : j \in 1..Len(locs[i].trailers)} : i \in 1..Len(locs)} :
                    /\ locs[ij[1]].name = location_name
                    /\ locs[ij[1]].trailers[ij[2]].number = trailer_num}
    IN  IF hits = {} THEN <<0, 0>>
        ELSE CHOOSE ij \in hits :
                \A o \in hits : ij[1] < o[1] \/ (ij[1] = o[1] /\ ij[2] <= o[2])

\* text.strip() if text else ""
StripOrEmpty(text) == IF Truthy(text) THEN Strip(text) ELSE <<>>

\* a slip: an argument that is empty or None leaves its field as it was
EditFieldsKeepingOmitted(trailer, seal_number, trailer_number) ==
    [trailer EXCEPT
        !.seal_number = IF Truthy(seal_number) THEN Strip(seal_number) ELSE @,
        !.trailer_number = IF Truthy(trailer_number) THEN Strip(trailer_number) ELSE @]

\* trailer.seal_number = seal_number.strip() if seal_number else ""
\* trailer.trailer_number = trailer_number.strip() if trailer_number else ""
EditFields(trailer, seal_number, trailer_number) ==
    [trailer EXCEPT
        !.seal_number = StripOrEmpty(seal_number),
        !.trailer_number = StripOrEmpty(trailer_number)]

\* a slip: the flag set, the timestamp assignment forgotten
DispatchFieldsWithoutTimestamp(trailer, clock) ==
    [trailer EXCEPT !.dispatched = TRUE]

\* trailer.dispatched = True
\* trailer.dispatch_timestamp = datetime.now().strftime(...)
DispatchFields(trailer, clock) ==
    [trailer EXCEPT !.dispatched = TRUE, !.dispatch_timestamp = clock]

\* a slip: the "if trailer.dispatched" test of the edit handlers left out
EditFoundUnguarded(location_name, trailer_num, seal_number, trailer_number) ==
    LET ij == FindTrailer(current_locations, location_name, trailer_num)
    IN  IF ij = <<0, 0>>
        THEN /\ result' = Ret("NotFound")
             /\ UNCHANGED current_locations
        ELSE /\ current_locations' =
                    [current_locations EXCEPT ![ij[1]].trailers[ij[2]] =
                        EditFields(@, seal_number, trailer_number)]
             /\ result' = Ret("Updated")

\* a slip: the fields written before the "if trailer.dispatched" test
EditFoundCheckingLate(location_name, trailer_num, seal_number, trailer_number) ==
    LET ij == FindTrailer(current_locations, location_name, trailer_num)
    IN  IF ij = <<0, 0>>
        THEN /\ result' = Ret("NotFound")
             /\ UNCHANGED current_locations
        ELSE /\ current_locations' =
                    [current_locations EXCEPT ![ij[1]].trailers[ij[2]] =
                        EditFields(@, seal_number, trailer_number)]
             /\ result' = IF current_locations[ij[1]].trailers[ij[2]].dispatched
                           THEN Ret("TrailerAlreadyDispatched")
                           ELSE Ret("Updated")

\* the search loops of the two edit handlers and what they do at the match
EditFound(location_name, trailer_num, seal_number, trailer_number) ==
    LET ij == FindTrailer(current_locations, location_name, trailer_num)
    IN  IF ij = <<0, 0>>
        THEN /\ result' = Ret("NotFound")
             /\ UNCHANGED current_locations
        ELSE IF current_locations[ij[1]].trailers[ij[2]].dispatched
        THEN /\ result' = Ret("TrailerAlreadyDispatched")
             /\ UNCHANGED current_locations
        ELSE /\ current_locations' =
                    [current_locations EXCEPT ![ij[1]].trailers[ij[2]] =
                        EditFields(@, seal_number, trailer_number)]
             /\ result' = Ret("Updated")

\* a slip: the "if trailer.number == trailer_num" test left out, so that the
\* dispatch marks every Active trailer of the location
DispatchFoundWholeLocation(location_name, trailer_num) ==
    LET ij == FindTrailer(current_locations, location_name, trailer_num)
    IN  IF ij = <<0, 0>>
        THEN /\ result' = Ret("NotFound")
             /\ UNCHANGED current_locations
        ELSE IF current_locations[ij[1]].trailers[ij[2]].dispatched
        THEN /\ result' = Ret("AlreadyDispatched")
             /\ UNCHANGED current_locations
        ELSE /\ current_locations' =
                    [current_locations EXCEPT ![ij[1]].trailers =
                        [j \in 1..Len(@) |->
                            IF @[j].dispatched THEN @[j] ELSE DispatchFields(@[j], now)]]
             /\ result' = Ret("Dispatched")

\* a slip: the "if trailer.dispatched" test of the dispatch handlers left out
DispatchFoundUnguarded(location_name, trailer_num) ==
    LET ij == FindTrailer(current_locations, location_name, trailer_num)
    IN  IF ij = <<0, 0>>
        THEN /\ result' = Ret("NotFound")
             /\ UNCHANGED current_locations
        ELSE /\ current_locations' =
                    [current_locations EXCEPT ![ij[1]].trailers[ij[2]] =
                        DispatchFields(@, now)]
             /\ result' = Ret("Dispatched")

\* a slip: the dispatch of a dispatched trailer written as a toggle
DispatchFoundToggling(location_name, trailer_num) ==
    LET ij == FindTrailer(current_locations, location_name, trailer_num)
    IN  IF ij = <<0, 0>>
        THEN /\ result' = Ret("NotFound")
             /\ UNCHANGED current_locations
        ELSE IF current_locations[ij[1]].trailers[ij[2]].dispatched
        THEN /\ current_locations' =
                    [current_locations EXCEPT ![ij[1]].trailers[ij[2]] =
                        [@ EXCEPT !.dispatched = FALSE, !.dispatch_timestamp = NoTimestamp]]
             /\ result' = Ret("AlreadyDispatched")
        ELSE /\ current_locations' =
                    [current_locations EXCEPT ![ij[1]].trailers[ij[2]] =
                        DispatchFields(@, now)]
             /\ result' = Ret("Dispatched")

\* the search loops of the two dispatch handlers and what they do at the match
DispatchFound(location_name, trailer_num) ==
    LET ij == FindTrailer(current_locations, location_name, trailer_num)
    IN  IF ij = <<0, 0>>
        THEN /\ result' = Ret("NotFound")
             /\ UNCHANGED current_locations
        ELSE IF current_locations[ij[1]].trailers[ij[2]].dispatched
        THEN /\ result' = Ret("AlreadyDispatched")
             /\ UNCHANGED current_locations
        ELSE /\ current_locations' =
                    [current_locations EXCEPT ![ij[1]].trailers[ij[2]] =
                        DispatchFields(@, now)]
             /\ result' = Ret("Dispatched")

\* edit_trailer_info_by_id(trailer_identifier, seal_number, trailer_number)
edit_trailer_info_by_id(trailer_identifier, seal_number, trailer_number) ==
    /\ IF current_locations = <<>> \/ ~Truthy(trailer_identifier)
       THEN /\ result' = Ret("NoInput")
            /\ UNCHANGED current_locations
       ELSE IF FirstUnderscore(trailer_identifier, 1) = 0
       THEN /\ result' = Ret("InvalidFormat")
            /\ UNCHANGED current_locations
       ELSE IF ~IsIntLiteral(SplitOnce(trailer_identifier)[2])
       THEN /\ result' = Ret("Error")
            /\ UNCHANGED current_locations
       ELSE EditFound(SplitOnce(trailer_identifier)[1],
                      IntOf(SplitOnce(trailer_identifier)[2], 0),
                      seal_number, trailer_number)
    /\ UNCHANGED <<otherVars, locations, now>>

\* update_trailer_from_button(location_name, trailer_num, seal_number, trailer_number)
update_trailer_from_button(location_name, trailer_num, seal_number, trailer_number) ==
    /\ IF current_locations = <<>>
       THEN /\ result' = Ret("NoLocations")
            /\ UNCHANGED current_locations
       ELSE EditFound(location_name, trailer_num, seal_number, trailer_number)
    /\ UNCHANGED <<otherVars, locations, now>>

\* dispatch_trailer_by_id(trailer_identifier, confirm_dispatch)
dispatch_trailer_by_id(trailer_identifier, confirm_dispatch) ==
    /\ IF current_locations = <<>> \/ ~Truthy(trailer_identifier)
       THEN /\ result' = Ret("NoInput")
            /\ UNCHANGED current_locations
       ELSE IF ~confirm_dispatch
       THEN /\ result' = Ret("DispatchCancelled")
            /\ UNCHANGED current_locations
       ELSE IF FirstUnderscore(trailer_identifier, 1) = 0
       THEN /\ result' = Ret("InvalidFormat")
            /\ UNCHANGED current_locations
       ELSE IF ~IsIntLiteral(SplitOnce(trailer_identifier)[2])
       THEN /\ result' = Ret("Error")
            /\ UNCHANGED current_locations
       ELSE DispatchFound(SplitOnce(trailer_identifier)[1],
                          IntOf(SplitOnce(trailer_identifier)[2], 0))
    /\ UNCHANGED <<otherVars, locations, now>>

\* a slip: the "if not confirm_dispatch" test of the button handler left out
dispatch_trailer_from_button_unconfirmed(location_name, trailer_num, confirm_dispatch) ==
    /\ IF current_locations = <<>>
       THEN /\ result' = Ret("NoLocations")
            /\ UNCHANGED current_locations
       ELSE DispatchFound(location_name, trailer_num)
    /\ UNCHANGED <<otherVars, locations, now>>

\* dispatch_trailer_from_button(location_name, trailer_num, confirm_dispatch)
dispatch_trailer_from_button(location_name, trailer_num, confirm_dispatch) ==
    /\ IF current_locations = <<>>
       THEN /\ result' = Ret("NoLocations")
            /\ UNCHANGED current_locations
       ELSE IF ~confirm_dispatch
       THEN /\ result' = Ret("DispatchCancelled")
            /\ UNCHANGED current_locations
       ELSE DispatchFound(location_name, trailer_num)
    /\ UNCHANGED <<otherVars, locations, now>>

\* a slip: the Location objects of the previous relay kept, and
\* assign_trailers run on them again
create_relay_keeping_locations(orders_data, draws) ==
    /\ IF orders_data = <<>>
       THEN /\ result' = Ret("NoOrdersFound")
            /\ UNCHANGED current_locations
       ELSE IF create_relay_from_orders_data(orders_data, draws) = <<>>
       THEN /\ result' = Ret("RelayFailed")
            /\ UNCHANGED current_locations
       ELSE /\ current_locations' =
                LET locs == LocationsFromData(orders_data)
                IN  [k \in 1..Len(locs) |->
                        IF k <= Len(current_locations)
                              /\ current_locations[k].name = locs[k].name
                        THEN assign_trailers(current_locations[k], <<>>, draws[k])
                        ELSE assign_trailers(locs[k], <<>>, draws[k])]
            /\ result' = Ret("RelayCreated")
    /\ UNCHANGED <<otherVars, locations, now>>

\* create_relay, from the orders load_orders_from_json_files returned; draws
\* are the load numbers random.randint returns during the call
create_relay(orders_data, draws) ==
    /\ IF orders_data = <<>>
       THEN /\ result' = Ret("NoOrdersFound")
            /\ UNCHANGED current_locations
       ELSE IF create_relay_from_orders_data(orders_data, draws) = <<>>
       THEN /\ result' = Ret("RelayFailed")
            /\ UNCHANGED current_locations
       ELSE /\ current_locations' = create_relay_from_orders_data(orders_data, draws)
            /\ result' = Ret("RelayCreated")
    /\ UNCHANGED <<otherVars, locations, now>>

\* a slip: the overload's stacks added to the trailer's stacks
add_overload_adding_stacks(location_name, trailer_number, overload_from) ==
    LET ij == FindTrailer(locations, location_name, trailer_number)
    IN  /\ IF ij = <<0, 0>>
           THEN /\ result' = Ret("OverloadTrailerNotFound")
                /\ UNCHANGED locations
           ELSE /\ locations' = [locations EXCEPT
                                    ![ij[1]].trailers[ij[2]].overload_from = overload_from,
                                    ![ij[1]].trailers[ij[2]].stacks = @ + overload_from[2]]
                /\ result' = Ret("OverloadAdded")
        /\ UNCHANGED <<otherVars, current_locations, now>>

\* RelaySystem.add_overload(location_name, trailer_number, overload_from)
add_overload(location_name, trailer_number, overload_from) ==
    LET ij == FindTrailer(locations, location_name, trailer_number)
    IN  /\ IF ij = <<0, 0>>
           THEN /\ result' = Ret("OverloadTrailerNotFound")
                /\ UNCHANGED locations
           ELSE /\ locations' = [locations EXCEPT
                                    ![ij[1]].trailers[ij[2]].overload_from = overload_from]
                /\ result' = Ret("OverloadAdded")
        /\ UNCHANGED <<otherVars, current_locations, now>>

\* a second passes on the clock
Tick ==
    /\ now < MaxClock
    /\ now' = now + 1
    /\ UNCHANGED <<otherVars, current_locations, locations, result>>

-----------------------------------------------------------------------------
(* relay_logic.py: RelaySystem.create_automated_relay *)

\* s.split(' ')[0]
FirstWord(s) ==
    LET RECURSIVE Upto(_, _)
        Upto(t, i) == IF i > Len(t) \/ t[i] = " " THEN SubSeq(t, 1, i - 1) ELSE Upto(t, i + 1)
    IN  Upto(s, 1)

\* RelaySystem.get_orders_by_date
get_orders_by_date(date) ==
    LET RECURSIVE Pick(_)
        Pick(os) == IF os = <<>> THEN <<>>
                    ELSE IF FirstWord(Head(os).order_date) = date
                         THEN <<Head(os)>> \o Pick(Tail(os))
                         ELSE Pick(Tail(os))
    IN  Pick(orders)

\* the sum of item.<f> over the items of the orders
RECURSIVE SumItems(_, _)
SumItems(os, f) ==
    IF os = <<>> THEN 0
    ELSE SumField(Head(os).items, f) + SumItems(Tail(os), f)

\* a slip: the totals summed over the lines of the first order only
from_orders_first_order_only(location_name, location_orders_list, lds) ==
    assign_trailers(
        [Location(location_name, 0, 0, 0, location_orders_list) EXCEPT
            !.total_bread_stacks = 0,
            !.total_bulk_stacks = 0,
            !.total_stacks = SumItems(SubSeq(location_orders_list, 1, 1), "stacks_needed"),
            !.total_trays = SumItems(SubSeq(location_orders_list, 1, 1), "trays_needed")],
        location_orders_list, lds)

\* Location.from_orders; lds are the load numbers its assign_trailers draws
from_orders(location_name, location_orders_list, lds) ==
    assign_trailers(
        [Location(location_name, 0, 0, 0, location_orders_list) EXCEPT
            !.total_bread_stacks = 0,
            !.total_bulk_stacks = 0,
            !.total_stacks = SumItems(location_orders_list, "stacks_needed"),
            !.total_trays = SumItems(location_orders_list, "trays_needed")],
        location_orders_list, lds)

\* the groups create_automated_relay makes of the orders of a date:
\* <<location name, orders>> per key
OrderGroups(os) ==
    LET names == [i \in 1..Len(os) |-> os[i].location]
        keys == GroupKeys(names, <<>>)
    IN  [k \in 1..Len(keys) |-> <<keys[k], GroupOf(os, names, keys[k])>>]

\* a slip: self.locations emptied before the orders of the date are looked up
create_automated_relay_clearing(date, draws) ==
    LET os == get_orders_by_date(date)
        groups == OrderGroups(os)
    IN  /\ IF os = <<>>
           THEN /\ result' = Ret("NoOrdersForDate")
                /\ locations' = <<>>
           ELSE /\ locations' = [k \in 1..Len(groups) |->
                                    from_orders(groups[k][1], groups[k][2], draws[k])]
                /\ result' = Ret("AutomatedRelayCreated")
        /\ UNCHANGED <<otherVars, current_locations, now>>

\* RelaySystem.create_automated_relay(date); draws are the load numbers
\* random.randint returns during the call
create_automated_relay(date, draws) ==
    LET os == get_orders_by_date(date)
        groups == OrderGroups(os)
    IN  /\ IF os = <<>>
           THEN /\ result' = Ret("NoOrdersForDate")
                /\ UNCHANGED locations
           ELSE /\ locations' = [k \in 1..Len(groups) |->
                                    from_orders(groups[k][1], groups[k][2], draws[k])]
                /\ result' = Ret("AutomatedRelayCreated")
        /\ UNCHANGED <<otherVars, current_locations, now>>

-----------------------------------------------------------------------------
(* orders.py: OrderSystem.calculate_order_quantities *)

Product(name, product_number, stack_height, tray_type, units_per_tray, origin_plant) ==
    [name |-> name,
     product_number |-> product_number,
     stack_height |-> stack_height,
     tray_type |-> tray_type,
     units_per_tray |-> units_per_tray,
     origin_plant |-> origin_plant]

\* calculate_order_quantities raises ZeroDivisionError: units_ordered /
\* product.units_per_tray or trays_needed / product.stack_height divides by 0
QuantitiesRaise(product_number) ==
    /\ product_number \in DOMAIN products
    /\ \/ products[product_number].units_per_tray = 0
       \/ products[product_number].stack_height = 0

\* the pair calculate_order_quantities returns, when it returns
Quantities(product_number, units_ordered) ==
    IF product_number \notin DOMAIN products
    THEN <<0, 0>>
    ELSE LET product == products[product_number]
             trays_needed == Ceil(units_ordered, product.units_per_tray)
             stacks_needed == Ceil(trays_needed, product.stack_height)
         IN  <<trays_needed, stacks_needed>>

\* calculate_order_quantities(product_number, units_ordered), on the waiting input
calculate_order_quantities ==
    /\ input.kind = "Call"
    /\ result' = IF QuantitiesRaise(input.product_number)
                 THEN Ret("ZeroDivisionError")
                 ELSE [kind |-> "Quantities",
                       trays_needed |->
                            Quantities(input.product_number, input.units_ordered)[1],
                       stacks_needed |->
                            Quantities(input.product_number, input.units_ordered)[2]]
    /\ input' = [input EXCEPT !.kind = "Returned"]
    /\ UNCHANGED <<products, orders, location, current_locations, locations, now, pc, frame>>

-----------------------------------------------------------------------------
(* orders.py: OrderSystem.create_order. day_number is 0 when the caller     *)
(* gives None or 0: the code only tests its truth.                         *)

Route(route_id, location_name) == [route_id |-> route_id, location |-> location_name]

\* self.routes, as load_data filled it
routes ==
    [r \in {6278, 5539, 4410, 4411} |->
        Route(r, IF r = 6278 THEN <<"A">>
                 ELSE IF r = 5539 THEN <<"B">>
                 ELSE IF r = 4410 THEN <<"a">>
                 ELSE <<"A", " ">>)]

\* datetime.now().strftime('%Y-%m-%d'), '%Y%m%d' and '%H:%M:%S' / '%H%M%S':
\* the clock stays within one day, its seconds are the time of day
Today == <<"2025", "-", "09", "-", "11">>
TodayCompact == <<"20250911">>
TimeOfDay(clock) == StrOf(clock)

\* order_id = f"ORD_D{day_number}_{...}" if day_number else f"ORD_{...}"
OrderId(day_number, clock) ==
    IF day_number # 0
    THEN <<"ORD_", "D">> \o StrOf(day_number) \o <<"_">> \o TodayCompact \o <<"_">>
            \o TimeOfDay(clock)
    ELSE <<"ORD_">> \o TodayCompact \o <<"_">> \o TimeOfDay(clock)

\* datetime.strptime(order_date, "%m/%d/%Y") succeeds: month, "/", day, "/", year
Months == {"01", "02", "03", "04", "05", "06", "07", "08", "09", "10", "11", "12"}
DaysOfMonth == {"01", "09", "10", "11", "28"}
ParsesAsDate(order_date) ==
    /\ Len(order_date) = 5
    /\ order_date[2] = "/"
    /\ order_date[4] = "/"
    /\ order_date[1] \in Months
    /\ order_date[3] \in DaysOfMonth

\* parsed_date.strftime('%Y-%m-%d')
IsoDate(order_date) == <<order_date[5], "-", order_date[1], "-", order_date[3]>>

\* formatted_date of create_order
FormattedDate(order_date, day_number, clock) ==
    LET date == IF Truthy(order_date) /\ ParsesAsDate(order_date)
                THEN IsoDate(order_date) ELSE Today
    IN  IF day_number # 0
        THEN date \o <<" ", "Day", " ">> \o StrOf(day_number) \o <<" ">> \o TimeOfDay(clock)
        ELSE IF Truthy(order_date) /\ ParsesAsDate(order_date)
        THEN date \o <<" ", "00:00:00">>
        ELSE date \o <<" ">> \o TimeOfDay(clock)

\* a slip: the "units_ordered <= 0" test of the loop left out
KeptWhateverUnits(item) ==
    /\ "product_number" \in DOMAIN item
    /\ item.product_number \in DOMAIN products

\* the line passes the two tests of the loop: a product of the catalog, and
\* units_ordered > 0
Kept(item) ==
    /\ "product_number" \in DOMAIN item
    /\ item.product_number \in DOMAIN products
    /\ Get(item, "units_ordered", 0) > 0

\* the OrderItem the loop builds for a line it keeps
ProcessedItem(item) ==
    LET product == products[item.product_number]
        requested == Get(item, "units_ordered", 0)
        units_ordered ==
            IF PyMod(requested, product.units_per_tray) # 0
            THEN Ceil(requested, product.units_per_tray) * product.units_per_tray
            ELSE requested
        quantities == Quantities(item.product_number, units_ordered)
    IN  [product_number |-> item.product_number,
         product_name |-> product.name,
         units_ordered |-> units_ordered,
         units_per_tray |-> product.units_per_tray,
         trays_needed |-> quantities[1],
         stack_height |-> product.stack_height,
         stacks_needed |-> quantities[2],
         tray_type |-> product.tray_type]

\* a slip: the running totals both fed from trays_needed
RECURSIVE ItemLoopTotalsMixed(_, _, _, _)
ItemLoopTotalsMixed(order_items, processed_items, total_trays, total_stacks) ==
    IF order_items = <<>>
    THEN [processed_items |-> processed_items,
          total_trays |-> total_trays,
          total_stacks |-> total_stacks]
    ELSE IF ~Kept(Head(order_items))
    THEN ItemLoopTotalsMixed(Tail(order_items), processed_items, total_trays, total_stacks)
    ELSE ItemLoopTotalsMixed(Tail(order_items),
                  Append(processed_items, ProcessedItem(Head(order_items))),
                  total_trays + ProcessedItem(Head(order_items)).trays_needed,
                  total_stacks + ProcessedItem(Head(order_items)).trays_needed)

\* a slip: a line with an unknown product ends the loop (break for continue)
RECURSIVE ItemLoopBreaking(_, _, _, _)
ItemLoopBreaking(order_items, processed_items, total_trays, total_stacks) ==
    IF order_items = <<>> \/ ~Kept(Head(order_items))
    THEN [processed_items |-> processed_items,
          total_trays |-> total_trays,
          total_stacks |-> total_stacks]
    ELSE ItemLoopBreaking(Tail(order_items),
                  Append(processed_items, ProcessedItem(Head(order_items))),
                  total_trays + ProcessedItem(Head(order_items)).trays_needed,
                  total_stacks + ProcessedItem(Head(order_items)).stacks_needed)

\* the loop over order_items, when no pass raises: processed_items and the
\* running totals at its end
RECURSIVE ItemLoop(_, _, _, _)
ItemLoop(order_items, processed_items, total_trays, total_stacks) ==
    IF order_items = <<>>
    THEN [processed_items |-> processed_items,
          total_trays |-> total_trays,
          total_stacks |-> total_stacks]
    ELSE IF ~Kept(Head(order_items))
    THEN ItemLoop(Tail(order_items), processed_items, total_trays, total_stacks)
    ELSE ItemLoop(Tail(order_items),
                  Append(processed_items, ProcessedItem(Head(order_items))),
                  total_trays + ProcessedItem(Head(order_items)).trays_needed,
                  total_stacks + ProcessedItem(Head(order_items)).stacks_needed)

\* a pass of the loop raises ZeroDivisionError out of create_order
ItemLoopRaises(order_items) ==
    \E i \in 1..Len(order_items) :
        Kept(order_items[i]) /\ QuantitiesRaise(order_items[i].product_number)

\* the Order create_order builds at the second clock
NewOrder(route_id, order_items, order_date, day_number, clock) ==
    LET loop == ItemLoop(order_items, <<>>, 0, 0)
    IN  [order_id |-> OrderId(day_number, clock),
         route_id |-> route_id,
         location |-> routes[route_id].location,
         order_date |-> FormattedDate(order_date, day_number, clock),
         items |-> loop.processed_items,
         total_trays |-> loop.total_trays,
         total_stacks |-> loop.total_stacks]

\* a slip: the orders kept in a list, every new one appended
StoreOrderAppending(stored, order) == Append(stored, order)

\* self.orders[order_id] = order: a dict keeps a key it has where it is
StoreOrder(stored, order) ==
    IF \E i \in 1..Len(stored) : stored[i].order_id = order.order_id
    THEN [i \in 1..Len(stored) |->
            IF stored[i].order_id = order.order_id THEN order ELSE stored[i]]
    ELSE Append(stored, order)

\* create_order(route_id, order_items, order_date, day_number); it returns
\* None after printing "Route ... not found." or "No valid items in order."
create_order(route_id, order_items, order_date, day_number) ==
    /\ IF route_id \notin DOMAIN routes
       THEN /\ result' = Ret("RouteNotFound")
            /\ UNCHANGED orders
       ELSE IF ItemLoopRaises(order_items)
       THEN /\ result' = Ret("ZeroDivisionError")
            /\ UNCHANGED orders
       ELSE IF ItemLoop(order_items, <<>>, 0, 0).processed_items = <<>>
       THEN /\ result' = Ret("NoValidItems")
            /\ UNCHANGED orders
       ELSE /\ orders' = StoreOrder(orders,
                            NewOrder(route_id, order_items, order_date, day_number, now))
            /\ result' = [kind |-> "Order",
                          order |-> NewOrder(route_id, order_items, order_date,
                                             day_number, now)]
    /\ UNCHANGED <<products, input, location, current_locations, locations, now, pc, frame>>

-----------------------------------------------------------------------------
(* The inputs the calls are given *)

LocA == <<"A">>
LocB == <<"B">>

OrderData(order_id, location_name, total_trays, total_stacks) ==
    [order_id |-> order_id,
     location |-> location_name,
     total_trays |-> total_trays,
     total_stacks |-> total_stacks]

\* batches load_orders_from_json_files may return: none; one location with
\* two trailers; two locations with one trailer each; a location without stacks
SampleOrdersData ==
    {<<>>,
     <<OrderData("o1", LocA, 1000, 60), OrderData("o2", LocA, 1500, 90)>>,
     <<OrderData("o1", LocA, 1000, 60), OrderData("o2", LocB, 1666, 98)>>,
     <<OrderData("o1", LocB, 0, 0)>>}

\* <<seal_number, trailer_number>> as the edit handlers are given them
SampleEdits ==
    {<<None, None>>, <<<<>>, <<" ", "7", " ">>>>, <<<<" ", "7", " ">>, <<>>>>,
     <<<<" ", "7", " ">>, <<" ", "7", " ">>>>}

\* one outcome of the random load numbers: the k-th location's i-th trailer
\* draws 100000000 + 10 * k + i (no handler reads ld_number)
DistinctDraws(n) == [k \in 1..n |-> [i \in 1..9 |-> 100000000 + 10 * k + i]]

\* trailer identifiers: empty, without "_", with a number that is none, and
\* LocationName_TrailerNumber
SampleIdentifiers ==
    {<<>>, <<"A", "1">>, <<"A", "_", "x">>, LocB \o <<"_">> \o StrOf(1)}
        \cup {LocA \o <<"_">> \o StrOf(n) : n \in 1..2}

SampleNames == {LocA, LocB}
SampleNumbers == 1..2
SampleOverloads == {<<LocB, 5>>}

\* a catalog of one product, and the orders a RelaySystem loaded when it
\* was constructed
SampleProducts == [n \in {101} |-> Product("White Bread", 101, 17, "bread", 12, 1)]

OrderItem(product_number, units_ordered) ==
    LET product == SampleProducts[product_number]
    IN  [product_number |-> product_number,
         product_name |-> product.name,
         units_ordered |-> units_ordered,
         units_per_tray |-> product.units_per_tray,
         trays_needed |-> Ceil(units_ordered, product.units_per_tray),
         stack_height |-> product.stack_height,
         stacks_needed |-> Ceil(Ceil(units_ordered, product.units_per_tray), product.stack_height),
         tray_type |-> product.tray_type]

SampleOrders ==
    <<[order_id |-> "ORD_20250910_080000",
       route_id |-> 6278,
       location |-> LocA,
       order_date |-> <<"2025-09-10", " ", "08:00:00">>,
       items |-> <<OrderItem(101, 8160)>>,
       total_trays |-> 680,
       total_stacks |-> 40]>>

SampleDates == {<<"2025-09-10">>, <<"2025-09-11">>}

-----------------------------------------------------------------------------
(* Spec: one session of the application. The catalog and the orders are    *)
(* loaded, no relay has been created.                                      *)

Procs == {"edit", "dispatch"}

NoCall == [kind |-> "None"]

NoFrame == [ij |-> <<0, 0>>, seal_number |-> None, trailer_number |-> None, ret |-> Ret("None")]

Init ==
    /\ products = SampleProducts
    /\ orders = SampleOrders
    /\ input = NoCall
    /\ location = <<>>
    /\ current_locations = <<>>
    /\ locations = <<>>
    /\ now = 1
    /\ result = Ret("None")
    /\ pc = [p \in Procs |-> "idle"]
    /\ frame = [p \in Procs |-> NoFrame]

CreateRelay ==
    \E orders_data \in SampleOrdersData :
        create_relay(orders_data, DistinctDraws(Len(orders_data)))

CreateAutomatedRelay ==
    \E date \in SampleDates : create_automated_relay(date, DistinctDraws(Len(orders)))

EditTrailerInfoById ==
    \E id \in SampleIdentifiers, edit \in SampleEdits :
        edit_trailer_info_by_id(id, edit[1], edit[2])

UpdateTrailerFromButton ==
    \E name \in SampleNames, n \in SampleNumbers, edit \in SampleEdits :
        update_trailer_from_button(name, n, edit[1], edit[2])

DispatchTrailerById ==
    \E id \in SampleIdentifiers, confirm \in BOOLEAN : dispatch_trailer_by_id(id, confirm)

DispatchTrailerFromButton ==
    \E name \in SampleNames, n \in SampleNumbers, confirm \in BOOLEAN :
        dispatch_trailer_from_button(name, n, confirm)

AddOverload ==
    \E name \in SampleNames, n \in SampleNumbers, overload \in SampleOverloads :
        add_overload(name, n, overload)

Next ==
    \/ CreateRelay
    \/ CreateAutomatedRelay
    \/ EditTrailerInfoById
    \/ UpdateTrailerFromButton
    \/ DispatchTrailerById
    \/ DispatchTrailerFromButton
    \/ AddOverload
    \/ Tick

Spec == Init /\ [][Next]_vars

-----------------------------------------------------------------------------
(* SpecAlloc: a Location as create_relay_from_orders_data leaves it before *)
(* its assign_trailers call, for every total_stacks, and the call          *)

InitAlloc ==
    /\ products = SampleProducts
    /\ orders = <<>>
    /\ input = NoCall
    /\ \E n \in 0..MaxStacks :
        location = <<LocationFromData(LocA, <<OrderData("o1", LocA, 17 * n, n)>>)>>
    /\ current_locations = <<>>
    /\ locations = <<>>
    /\ now = 1
    /\ result = [kind |-> "AssignTrailers", calls |-> 0]
    /\ pc = [p \in Procs |-> "idle"]
    /\ frame = [p \in Procs |-> NoFrame]

AssignTrailers ==
    /\ result.calls < MaxAssignCalls
    /\ \E lds \in LdDraws(location[1]) :
        location' = <<assign_trailers(location[1], <<>>, lds)>>
    /\ result' = [result EXCEPT !.calls = @ + 1]
    /\ UNCHANGED <<products, orders, input, current_locations, locations, now, pc, frame>>

NextAlloc == AssignTrailers

SpecAlloc == InitAlloc /\ [][NextAlloc]_vars

-----------------------------------------------------------------------------
(* SpecQty: calculate_order_quantities on every catalog of one product and *)
(* every number of units, for the product and for a number not in it       *)

InitQty ==
    /\ \E upt \in 1..MaxUnitsPerTray, sh \in 1..MaxStackHeight :
        products = [n \in {101} |-> Product("White Bread", 101, sh, "bread", upt, 1)]
    /\ orders = <<>>
    /\ \E pn \in {101, 102}, units \in 0..MaxUnits :
        input = [kind |-> "Call", product_number |-> pn, units_ordered |-> units]
    /\ location = <<>>
    /\ current_locations = <<>>
    /\ locations = <<>>
    /\ now = 1
    /\ result = Ret("None")
    /\ pc = [p \in Procs |-> "idle"]
    /\ frame = [p \in Procs |-> NoFrame]

NextQty == calculate_order_quantities

SpecQty == InitQty /\ [][NextQty]_vars

-----------------------------------------------------------------------------
(* SpecDraw: one relay generation from a batch of two locations, with      *)
(* every outcome of the load numbers random.randint may return             *)

\* total_stacks of a location's orders: no trailer, one part trailer, one
\* full trailer, two trailers, two full trailers
DrawTotals == {0, 60, 98, 150, 196}

DrawBatches ==
    {<<OrderData("o1", LocA, 17 * n, n), OrderData("o2", LocB, 17 * m, m)>> :
        n \in DrawTotals, m \in DrawTotals}

\* the load numbers the generation from orders_data may draw: one per
\* trailer of each location
DrawsFor(orders_data) ==
    LET locs == LocationsFromData(orders_data)
    IN  {draws \in [1..Len(locs) -> UNION {[1..n -> LdNumbers] : n \in 0..2}] :
            \A k \in 1..Len(locs) : Len(draws[k]) = LoopCount(locs[k].total_stacks)}

InitDraw ==
    /\ products = SampleProducts
    /\ orders = <<>>
    /\ \E orders_data \in DrawBatches : input = [kind |-> "Batch", orders_data |-> orders_data]
    /\ location = <<>>
    /\ current_locations = <<>>
    /\ locations = <<>>
    /\ now = 1
    /\ result = Ret("None")
    /\ pc = [p \in Procs |-> "idle"]
    /\ frame = [p \in Procs |-> NoFrame]

GenerateRelay ==
    /\ current_locations = <<>>
    /\ \E draws \in DrawsFor(input.orders_data) : create_relay(input.orders_data, draws)

NextDraw == GenerateRelay

SpecDraw == InitDraw /\ [][NextDraw]_vars

-----------------------------------------------------------------------------
(* SpecOrder: create_order calls on an OrderSystem that has loaded its     *)
(* catalog and holds no order. Product 101 is sound; product 103 is sound  *)
(* or has a units_per_tray or stack_height that is 0 or negative.          *)

SampleCatalogs ==
    {[n \in {101, 103} |->
        IF n = 101 THEN Product("White Bread", 101, 17, "bread", 12, 1)
        ELSE Product("Rolls", 103, spec[2], "bulk", spec[1], 1)] :
     spec \in {<<10, 5>>, <<0, 17>>, <<-12, 17>>, <<12, 0>>, <<12, -17>>}}

Line(product_number, units_ordered) ==
    [product_number |-> product_number, units_ordered |-> units_ordered]

\* the text boxes' date: none, MM/DD/YYYY, and a date in another format
NoDate == None
SomeDate == <<"09", "/", "10", "/", "2025">>
BadDate == <<"2025", "-", "09", "-", "10">>

\* <<route_id, order_items, order_date, day_number>>: an unknown route; no
\* line; no line that passes; a request that is no multiple of the tray;
\* unknown products, lines without units and with negative units among
\* sound lines; lines for product 103; day numbers 0, 1, 3 and 7
SampleCalls ==
    {<<1, <<Line(101, 101)>>, NoDate, 0>>,
     <<6278, <<>>, NoDate, 0>>,
     <<6278, <<Line(999, 24), Line(101, 0)>>, SomeDate, 1>>,
     <<6278, <<Line(101, 101)>>, NoDate, 0>>,
     <<5539, <<Line(101, 24)>>, NoDate, 0>>,
     <<6278, <<Line(101, 101)>>, SomeDate, 1>>,
     <<6278, <<Line(999, 24), Line(101, 24)>>, SomeDate, 3>>,
     <<5539, <<Line(101, 24), [product_number |-> 101], Line(999, 5), Line(101, 13),
               Line(101, -5)>>, BadDate, 1>>,
     <<6278, <<Line(101, 24), Line(103, 25)>>, SomeDate, 0>>,
     <<5539, <<Line(103, 204)>>, NoDate, 7>>}

InitOrder ==
    /\ products \in SampleCatalogs
    /\ orders = <<>>
    /\ input = NoCall
    /\ location = <<>>
    /\ current_locations = <<>>
    /\ locations = <<>>
    /\ now = 1
    /\ result = Ret("None")
    /\ pc = [p \in Procs |-> "idle"]
    /\ frame = [p \in Procs |-> NoFrame]

CreateOrder ==
    /\ Len(orders) < MaxOrders
    /\ \E call \in SampleCalls : create_order(call[1], call[2], call[3], call[4])

NextOrder ==
    \/ CreateOrder
    \/ Tick

SpecOrder == InitOrder /\ [][NextOrder]_vars

-----------------------------------------------------------------------------
(* SpecBatch: the two relay generations on one batch of orders that        *)
(* create_order made, one order a second: create_automated_relay on the    *)
(* orders the OrderSystem holds, create_relay on the file                  *)
(* save_orders_with_confirmation wrote of them.                            *)

\* order_dict of save_orders_with_confirmation, as json.load gives it back
OrderDict(order) ==
    [order_id |-> order.order_id,
     route_id |-> order.route_id,
     location |-> order.location,
     order_date |-> order.order_date,
     total_trays |-> order.total_trays,
     total_stacks |-> order.total_stacks,
     items |-> [i \in 1..Len(order.items) |->
                    [product_number |-> order.items[i].product_number,
                     product_name |-> order.items[i].product_name,
                     units_ordered |-> order.items[i].units_ordered,
                     units_per_tray |-> order.items[i].units_per_tray,
                     trays_needed |-> order.items[i].trays_needed,
                     stack_height |-> order.items[i].stack_height,
                     stacks_needed |-> order.items[i].stacks_needed,
                     tray_type |-> order.items[i].tray_type]]]

\* file_data["orders"] of the file written for a batch
SavedOrders(batch) == [i \in 1..Len(batch) |-> OrderDict(batch[i])]

\* the routes and the requests of a batch: locations that differ in case
\* and by a blank, a request of 100 stacks and one of two lines
BatchRoutes == {6278, 4410, 4411}
BatchItems == {<<Line(101, 20400)>>, <<Line(101, 24), Line(103, 25)>>}
BatchCalls == UNION {[1..n -> BatchRoutes \X BatchItems] : n \in 0..MaxBatch}

\* the orders held after the calls, the i-th made at second i for day 1
RECURSIVE BatchOf(_, _)
BatchOf(calls, n) ==
    IF n = 0 THEN <<>>
    ELSE StoreOrder(BatchOf(calls, n - 1),
                    NewOrder(calls[n][1], calls[n][2], SomeDate, 1, n))

InitBatch ==
    /\ products \in {c \in SampleCatalogs :
                        c[103].units_per_tray # 0 /\ c[103].stack_height > 0}
    /\ \E calls \in BatchCalls : orders = BatchOf(calls, Len(calls))
    /\ input = NoCall
    /\ location = <<>>
    /\ current_locations = <<>>
    /\ locations = <<>>
    /\ now = 1
    /\ result = Ret("None")
    /\ pc = [p \in Procs |-> "idle"]
    /\ frame = [p \in Procs |-> NoFrame]

BatchDates == {IsoDate(SomeDate), Today}

RelayFromStore ==
    \E date \in BatchDates : create_automated_relay(date, DistinctDraws(Len(orders)))

RelayFromFile ==
    create_relay(SavedOrders(orders), DistinctDraws(Len(orders)))

NextBatch ==
    \/ RelayFromStore
    \/ RelayFromFile

SpecBatch == InitBatch /\ [][NextBatch]_vars

-----------------------------------------------------------------------------
(* The orders files: what json.dump writes for the scalars of an order and *)
(* json.load reads back, and the handlers that write and read the files    *)

\* json.dumps of an int
JsonInt(n) == IF n < 0 THEN <<"-">> \o StrOf(-n) ELSE StrOf(n)

\* json.loads of the text of an int
ParseJsonInt(text) ==
    IF Head(text) = "-" THEN -IntOf(Tail(text), 0) ELSE IntOf(text, 0)

\* json.dumps of a str: between quotes, '"' and '\' escaped
RECURSIVE JsonEscape(_)
JsonEscape(s) ==
    IF s = <<>> THEN <<>>
    ELSE (IF Head(s) \in {"\"", "\\"} THEN <<"\\", Head(s)>> ELSE <<Head(s)>>)
            \o JsonEscape(Tail(s))

JsonString(s) == <<"\"">> \o JsonEscape(s) \o <<"\"">>

\* json.loads of the text of a str
RECURSIVE JsonUnescape(_)
JsonUnescape(text) ==
    IF text = <<>> THEN <<>>
    ELSE IF Head(text) = "\\"
         THEN <<text[2]>> \o JsonUnescape(SubSeq(text, 3, Len(text)))
         ELSE <<Head(text)>> \o JsonUnescape(Tail(text))

ParseJsonString(text) == JsonUnescape(SubSeq(text, 2, Len(text) - 1))

\* the fields of the dataclasses OrderItem and Order
ItemFields ==
    {"product_number", "product_name", "units_ordered", "units_per_tray", "trays_needed",
     "stack_height", "stacks_needed", "tray_type"}

OrderFields ==
    {"order_id", "route_id", "location", "order_date", "items", "total_trays", "total_stacks"}

\* dataclasses.asdict(order)
asdict(order) ==
    [f \in OrderFields |->
        IF f = "items"
        THEN [i \in 1..Len(order.items) |-> [g \in ItemFields |-> order.items[i][g]]]
        ELSE order[f]]

\* an order dict as json.dump writes it: product_name and tray_type are
\* strings of one token here
DumpItem(item_dict) ==
    [g \in DOMAIN item_dict |->
        IF g \in {"product_name", "tray_type"} THEN JsonString(<<item_dict[g]>>)
        ELSE JsonInt(item_dict[g])]

DumpOrder(order_dict) ==
    [f \in DOMAIN order_dict |->
        IF f = "items"
        THEN [i \in 1..Len(order_dict.items) |-> DumpItem(order_dict.items[i])]
        ELSE IF f \in {"order_id", "location", "order_date"} THEN JsonString(order_dict[f])
        ELSE JsonInt(order_dict[f])]

\* an order dict as json.load returns it
ParseItem(item_text) ==
    [g \in DOMAIN item_text |->
        IF g \in {"product_name", "tray_type"} THEN ParseJsonString(item_text[g])[1]
        ELSE ParseJsonInt(item_text[g])]

ParseOrder(order_text) ==
    [f \in DOMAIN order_text |->
        IF f = "items"
        THEN [i \in 1..Len(order_text.items) |-> ParseItem(order_text.items[i])]
        ELSE IF f \in {"order_id", "location", "order_date"}
        THEN ParseJsonString(order_text[f])
        ELSE ParseJsonInt(order_text[f])]

\* OrderSystem.save_orders_to_file; the file written is the input of the loads
save_orders_to_file ==
    /\ input' = [kind |-> "File",
                 orders |-> [i \in 1..Len(orders) |-> DumpOrder(asdict(orders[i]))],
                 export_date |-> JsonString(Today \o <<" ">> \o TimeOfDay(now))]
    /\ result' = Ret("Saved")
    /\ UNCHANGED <<products, orders, location, current_locations, locations, now, pc, frame>>

\* save_orders_with_confirmation(orders, date_str, day_num)
save_orders_with_confirmation(its_orders, date_str, day_num) ==
    /\ input' = [kind |-> "File",
                 orders |-> [i \in 1..Len(its_orders) |-> DumpOrder(OrderDict(its_orders[i]))],
                 metadata |-> [total_orders |-> JsonInt(Len(its_orders)),
                               confirmed_date |-> JsonString(date_str),
                               confirmed_day |-> JsonInt(day_num),
                               generation_timestamp |-> JsonString(Today \o <<"T">> \o TimeOfDay(now))]]
    /\ result' = Ret("SavedWithConfirmation")
    /\ UNCHANGED <<products, orders, location, current_locations, locations, now, pc, frame>>

\* OrderItem(**item_data) and Order(**order_data) raise TypeError unless the
\* keys are the fields
BuildsOrder(order_data) ==
    /\ DOMAIN order_data = OrderFields
    /\ \A i \in 1..Len(order_data.items) : DOMAIN order_data.items[i] = ItemFields

\* a slip: the loaded order filed under its route_id
RECURSIVE LoadLoopKeyedByRoute(_, _)
LoadLoopKeyedByRoute(stored, file_orders) ==
    IF file_orders = <<>> THEN [orders |-> stored, loaded |-> TRUE]
    ELSE IF ~BuildsOrder(Head(file_orders)) THEN [orders |-> stored, loaded |-> FALSE]
    ELSE LET order == ParseOrder(Head(file_orders))
         IN  LoadLoopKeyedByRoute(
                IF \E i \in 1..Len(stored) : stored[i].route_id = order.route_id
                THEN [i \in 1..Len(stored) |->
                        IF stored[i].route_id = order.route_id THEN order ELSE stored[i]]
                ELSE Append(stored, order),
                Tail(file_orders))

\* the loop of load_orders_from_file over data["orders"]; an exception ends
\* it with the orders loaded so far kept
RECURSIVE LoadLoop(_, _)
LoadLoop(stored, file_orders) ==
    IF file_orders = <<>> THEN [orders |-> stored, loaded |-> TRUE]
    ELSE IF ~BuildsOrder(Head(file_orders)) THEN [orders |-> stored, loaded |-> FALSE]
    ELSE LoadLoop(StoreOrder(stored, ParseOrder(Head(file_orders))), Tail(file_orders))

\* OrderSystem.load_orders_from_file, of the file last written
load_orders_from_file ==
    /\ IF input.kind # "File"
       THEN /\ result' = Ret("LoadFailed")
            /\ UNCHANGED orders
       ELSE /\ orders' = LoadLoop(orders, input.orders).orders
            /\ result' = Ret(IF LoadLoop(orders, input.orders).loaded
                             THEN "Loaded" ELSE "LoadFailed")
    /\ UNCHANGED <<products, input, location, current_locations, locations, now, pc, frame>>

\* RelaySystem.__init__(orders_file_path): a new OrderSystem, without
\* orders, loads the file when there is one
RelaySystemInit ==
    /\ IF input.kind # "File"
       THEN /\ orders' = <<>>
            /\ result' = [kind |-> "RelaySystem", loaded |-> FALSE]
       ELSE /\ orders' = LoadLoop(<<>>, input.orders).orders
            /\ result' = [kind |-> "RelaySystem",
                          loaded |-> LoadLoop(<<>>, input.orders).loaded]
    /\ locations' = <<>>
    /\ UNCHANGED <<products, input, location, current_locations, now, pc, frame>>

\* what load_orders_from_json_files(selected_date, day_number) returns
OrdersFromJsonFiles(selected_date, day_number) ==
    IF input.kind # "File" THEN <<>>
    ELSE LET metadata == Get(input, "metadata", <<>>)
             confirmed_date == IF "confirmed_date" \in DOMAIN metadata
                               THEN ParseJsonString(metadata.confirmed_date) ELSE <<>>
             confirmed_day == IF "confirmed_day" \in DOMAIN metadata
                              THEN StrOf(ParseJsonInt(metadata.confirmed_day)) ELSE <<"1">>
         IN  IF confirmed_date = selected_date
                  /\ (day_number = 0 \/ StrOf(day_number) = confirmed_day)
             THEN [i \in 1..Len(input.orders) |-> ParseOrder(input.orders[i])]
             ELSE <<>>

\* load_orders_from_json_files(selected_date, day_number)
load_orders_from_json_files(selected_date, day_number) ==
    /\ result' = [kind |-> "OrdersData",
                  orders_data |-> OrdersFromJsonFiles(selected_date, day_number)]
    /\ UNCHANGED <<products, orders, input, location, current_locations, locations, now,
                   pc, frame>>

-----------------------------------------------------------------------------
(* SpecFile: a batch of orders in the OrderSystem, written to the orders   *)
(* file by either save and read back by each of the loads                  *)

InitFile ==
    /\ products \in {c \in SampleCatalogs :
                        c[103].units_per_tray # 0 /\ c[103].stack_height > 0}
    /\ \E calls \in {c \in BatchCalls : Len(c) <= MaxSaved} :
        orders = BatchOf(calls, Len(calls))
    /\ input = NoCall
    /\ location = <<>>
    /\ current_locations = <<>>
    /\ locations = <<>>
    /\ now = 1
    /\ result = Ret("None")
    /\ pc = [p \in Procs |-> "idle"]
    /\ frame = [p \in Procs |-> NoFrame]

SaveOrdersToFile == save_orders_to_file

SaveOrdersWithConfirmation ==
    \E day_num \in {1, 2} : save_orders_with_confirmation(orders, SomeDate, day_num)

LoadOrdersFromFile == load_orders_from_file

LoadOrdersFromJsonFiles ==
    \E selected_date \in {SomeDate, BadDate}, day_number \in {0, 1} :
        load_orders_from_json_files(selected_date, day_number)

NextFile ==
    \/ SaveOrdersToFile
    \/ SaveOrdersWithConfirmation
    \/ LoadOrdersFromFile
    \/ RelaySystemInit
    \/ LoadOrdersFromJsonFiles

SpecFile == InitFile /\ [][NextFile]_vars

-----------------------------------------------------------------------------
(* SpecConc: update_trailer_from_button and dispatch_trailer_from_button   *)
(* running at the same time on the relay of one create_relay call, one     *)
(* statement at a step. Gradio runs each handler call on a worker thread   *)
(* and the handlers take no lock.                                          *)

Returns(p, kind) ==
    /\ pc' = [pc EXCEPT ![p] = "idle"]
    /\ frame' = [frame EXCEPT ![p] = [NoFrame EXCEPT !.ret = Ret(kind)]]

TheTrailer(p) == current_locations[frame[p].ij[1]].trailers[frame[p].ij[2]]

\* update_trailer_from_button: the call, up to the trailer the loops find
EditCall(p, location_name, trailer_num, seal_number, trailer_number) ==
    /\ pc[p] = "idle"
    /\ IF current_locations = <<>>
       THEN Returns(p, "NoLocations")
       ELSE IF FindTrailer(current_locations, location_name, trailer_num) = <<0, 0>>
       THEN Returns(p, "NotFound")
       ELSE /\ pc' = [pc EXCEPT ![p] = "edit_check"]
            /\ frame' = [frame EXCEPT ![p] =
                            [ij |-> FindTrailer(current_locations, location_name, trailer_num),
                             seal_number |-> seal_number,
                             trailer_number |-> trailer_number,
                             ret |-> Ret("None")]]
    /\ UNCHANGED <<products, orders, input, location, current_locations, locations, now, result>>

\* if trailer.dispatched: return
EditCheck(p) ==
    /\ pc[p] = "edit_check"
    /\ IF TheTrailer(p).dispatched
       THEN Returns(p, "TrailerAlreadyDispatched")
       ELSE /\ pc' = [pc EXCEPT ![p] = "edit_seal"]
            /\ UNCHANGED frame
    /\ UNCHANGED <<products, orders, input, location, current_locations, locations, now, result>>

\* trailer.seal_number = seal_number.strip() if seal_number else ""
EditSeal(p) ==
    /\ pc[p] = "edit_seal"
    /\ current_locations' =
            [current_locations EXCEPT ![frame[p].ij[1]].trailers[frame[p].ij[2]].seal_number =
                StripOrEmpty(frame[p].seal_number)]
    /\ pc' = [pc EXCEPT ![p] = "edit_trailer"]
    /\ UNCHANGED <<products, orders, input, location, locations, now, result, frame>>

\* trailer.trailer_number = trailer_number.strip() if trailer_number else ""; return
EditTrailer(p) ==
    /\ pc[p] = "edit_trailer"
    /\ current_locations' =
            [current_locations EXCEPT ![frame[p].ij[1]].trailers[frame[p].ij[2]].trailer_number =
                StripOrEmpty(frame[p].trailer_number)]
    /\ Returns(p, "Updated")
    /\ UNCHANGED <<products, orders, input, location, locations, now, result>>

\* dispatch_trailer_from_button: the call, up to the trailer the loops find
DispatchCall(p, location_name, trailer_num, confirm_dispatch) ==
    /\ pc[p] = "idle"
    /\ IF current_locations = <<>>
       THEN Returns(p, "NoLocations")
       ELSE IF ~confirm_dispatch
       THEN Returns(p, "DispatchCancelled")
       ELSE IF FindTrailer(current_locations, location_name, trailer_num) = <<0, 0>>
       THEN Returns(p, "NotFound")
       ELSE /\ pc' = [pc EXCEPT ![p] = "dispatch_check"]
            /\ frame' = [frame EXCEPT ![p] =
                            [NoFrame EXCEPT !.ij =
                                FindTrailer(current_locations, location_name, trailer_num)]]
    /\ UNCHANGED <<products, orders, input, location, current_locations, locations, now, result>>

\* if trailer.dispatched: return
DispatchCheck(p) ==
    /\ pc[p] = "dispatch_check"
    /\ IF TheTrailer(p).dispatched
       THEN Returns(p, "AlreadyDispatched")
       ELSE /\ pc' = [pc EXCEPT ![p] = "dispatch_flag"]
            /\ UNCHANGED frame
    /\ UNCHANGED <<products, orders, input, location, current_locations, locations, now, result>>

\* trailer.dispatched = True
DispatchFlag(p) ==
    /\ pc[p] = "dispatch_flag"
    /\ current_locations' =
            [current_locations EXCEPT ![frame[p].ij[1]].trailers[frame[p].ij[2]].dispatched = TRUE]
    /\ pc' = [pc EXCEPT ![p] = "dispatch_time"]
    /\ UNCHANGED <<products, orders, input, location, locations, now, result, frame>>

\* trailer.dispatch_timestamp = datetime.now().strftime(...); return
DispatchTime(p) ==
    /\ pc[p] = "dispatch_time"
    /\ current_locations' =
            [current_locations EXCEPT
                ![frame[p].ij[1]].trailers[frame[p].ij[2]].dispatch_timestamp = now]
    /\ Returns(p, "Dispatched")
    /\ UNCHANGED <<products, orders, input, location, locations, now, result>>

\* the relay the handlers run on: one location with two trailers
ConcOrdersData == <<OrderData("o1", LocA, 1000, 60), OrderData("o2", LocA, 1500, 90)>>

\* the arguments of the concurrent edits
ConcEdits == {<<None, None>>, <<<<" ", "7", " ">>, <<" ", "7", " ">>>>}

InitConc ==
    /\ products = SampleProducts
    /\ orders = SampleOrders
    /\ input = NoCall
    /\ location = <<>>
    /\ current_locations =
            create_relay_from_orders_data(ConcOrdersData, DistinctDraws(Len(ConcOrdersData)))
    /\ locations = <<>>
    /\ now = 1
    /\ result = Ret("RelayCreated")
    /\ pc = [p \in Procs |-> "idle"]
    /\ frame = [p \in Procs |-> NoFrame]

EditStarts ==
    \E name \in SampleNames, n \in SampleNumbers, edit \in ConcEdits :
        EditCall("edit", name, n, edit[1], edit[2])

DispatchStarts ==
    \E name \in SampleNames, n \in SampleNumbers, confirm \in BOOLEAN :
        DispatchCall("dispatch", name, n, confirm)

NextConc ==
    \/ EditStarts
    \/ EditCheck("edit")
    \/ EditSeal("edit")
    \/ EditTrailer("edit")
    \/ DispatchStarts
    \/ DispatchCheck("dispatch")
    \/ DispatchFlag("dispatch")
    \/ DispatchTime("dispatch")
    \/ Tick

SpecConc == InitConc /\ [][NextConc]_vars

-----------------------------------------------------------------------------
(* SpecRace: two dispatch_trailer_from_button calls running at the same    *)
(* time on the relay of one create_relay call, one statement at a step     *)

Dispatchers == {"dispatch", "redispatch"}

InitRace ==
    /\ products = SampleProducts
    /\ orders = SampleOrders
    /\ input = NoCall
    /\ location = <<>>
    /\ current_locations =
            create_relay_from_orders_data(ConcOrdersData, DistinctDraws(Len(ConcOrdersData)))
    /\ locations = <<>>
    /\ now = 1
    /\ result = Ret("RelayCreated")
    /\ pc = [p \in Dispatchers |-> "idle"]
    /\ frame = [p \in Dispatchers |-> NoFrame]

DispatcherStarts ==
    \E p \in Dispatchers, name \in SampleNames, n \in SampleNumbers, confirm \in BOOLEAN :
        DispatchCall(p, name, n, confirm)

DispatcherChecks == \E p \in Dispatchers : DispatchCheck(p)

DispatcherFlags == \E p \in Dispatchers : DispatchFlag(p)

DispatcherStamps == \E p \in Dispatchers : DispatchTime(p)

NextRace ==
    \/ DispatcherStarts
    \/ DispatcherChecks
    \/ DispatcherFlags
    \/ DispatcherStamps
    \/ Tick

SpecRace == InitRace /\ [][NextRace]_vars

-----------------------------------------------------------------------------
(* The claims *)

RECURSIVE SumStacks(_)
SumStacks(trailers) ==
    IF trailers = <<>> THEN 0 ELSE Head(trailers).stacks + SumStacks(Tail(trailers))

\* C1: one assign_trailers call on a Location without trailers gives exactly
\* ceil(total_stacks / 98) trailers (none for 0 stacks), each with
\* 0 < stacks <= 98, and their stacks sum to total_stacks.
C1_AssignTrailersPartition ==
    result.calls = 1 =>
        LET loc == location[1]
            n == Len(loc.trailers)
        IN  /\ 98 * n >= loc.total_stacks
            /\ 98 * (n - 1) < loc.total_stacks
            /\ loc.total_stacks = 0 => n = 0
            /\ \A i \in 1..n : 0 < loc.trailers[i].stacks /\ loc.trailers[i].stacks <= 98
            /\ SumStacks(loc.trailers) = loc.total_stacks

\* 150 stacks allocated by one call: two trailers
C1_Witness ==
    /\ result.kind = "AssignTrailers"
    /\ result.calls = 1
    /\ location[1].total_stacks = 150
    /\ Len(location[1].trailers) = 2

\* C10: for a known product with units_per_tray >= 1 and stack_height >= 1
\* and units_ordered >= 0, calculate_order_quantities returns
\* trays_needed = ceil(units_ordered / units_per_tray), the least number of
\* trays holding the units, and stacks_needed = ceil(trays_needed /
\* stack_height), the least number of stacks holding the trays; 200 units at
\* 12 per tray and 17 trays per stack are 17 trays and 1 stack.
C10_QuantitiesAreCeilings ==
    (result.kind = "Quantities" /\ input.product_number \in DOMAIN products) =>
        LET product == products[input.product_number]
            trays == result.trays_needed
            stacks == result.stacks_needed
        IN  /\ trays * product.units_per_tray >= input.units_ordered
            /\ (trays - 1) * product.units_per_tray < input.units_ordered
            /\ stacks * product.stack_height >= trays
            /\ (stacks - 1) * product.stack_height < trays
            /\ (product.units_per_tray = 12 /\ product.stack_height = 17
                    /\ input.units_ordered = 200) => (trays = 17 /\ stacks = 1)

\* 200 units at 12 per tray, 17 trays per stack, calculated
C10_Witness ==
    /\ result.kind = "Quantities"
    /\ input.product_number \in DOMAIN products
    /\ products[input.product_number].units_per_tray = 12
    /\ products[input.product_number].stack_height = 17
    /\ input.units_ordered = 200
    /\ result.trays_needed = 17

(* The trailers of the current relay, by position, and the calls that name them *)

Positions(locs) ==
    UNION {{<<i, j>> : j \in 1..Len(locs[i].trailers)} : i \in 1..Len(locs)}

At(locs, ij) == locs[ij[1]].trailers[ij[2]]

IdentifierOf(ij) ==
    current_locations[ij[1]].name \o <<"_">> \o StrOf(At(current_locations, ij).number)

\* an edit call, by either handler, that names the trailer at ij
EditCallOn(ij, seal_number, trailer_number) ==
    \/ update_trailer_from_button(current_locations[ij[1]].name,
                                  At(current_locations, ij).number,
                                  seal_number, trailer_number)
    \/ edit_trailer_info_by_id(IdentifierOf(ij), seal_number, trailer_number)

\* a dispatch call, by either handler, that names the trailer at ij
DispatchCallOn(ij, confirm_dispatch) ==
    \/ dispatch_trailer_from_button(current_locations[ij[1]].name,
                                    At(current_locations, ij).number, confirm_dispatch)
    \/ dispatch_trailer_by_id(IdentifierOf(ij), confirm_dispatch)

\* any edit or dispatch call of the session
EditOrDispatchCall ==
    \/ EditTrailerInfoById
    \/ UpdateTrailerFromButton
    \/ DispatchTrailerById
    \/ DispatchTrailerFromButton

\* the trailer at ij is there after the step, with these three fields as before
Frozen(ij) ==
    /\ ij \in Positions(current_locations')
    /\ At(current_locations', ij).trailer_number = At(current_locations, ij).trailer_number
    /\ At(current_locations', ij).seal_number = At(current_locations, ij).seal_number
    /\ At(current_locations', ij).stacks = At(current_locations, ij).stacks

\* C2: once a trailer of the current relay is dispatched, no edit call and no
\* dispatch call, whatever its arguments, changes that trailer's
\* trailer_number, seal_number or stacks: a step that changes one of them is
\* no edit or dispatch call.
C2_DispatchedFieldsFrozen ==
    [][\A ij \in Positions(current_locations) :
            (At(current_locations, ij).dispatched /\ ~Frozen(ij)) => ~EditOrDispatchCall]_vars

\* a dispatched trailer that carries a seal, after an edit of it was refused
C2_Witness ==
    /\ result.kind = "TrailerAlreadyDispatched"
    /\ \E ij \in Positions(current_locations) :
            /\ At(current_locations, ij).dispatched
            /\ At(current_locations, ij).seal_number = <<"7">>

\* C4: an edit call that names a dispatched trailer returns
\* TrailerAlreadyDispatched and changes nothing: seal_number, trailer_number,
\* dispatched and dispatch_timestamp of every trailer are as before the call.
C4_EditOfDispatchedRefused ==
    [][\A ij \in Positions(current_locations) : \A edit \in SampleEdits :
            (At(current_locations, ij).dispatched /\ EditCallOn(ij, edit[1], edit[2])) =>
                /\ result'.kind = "TrailerAlreadyDispatched"
                /\ current_locations' = current_locations]_vars

\* an edit refused for a trailer dispatched with empty fields
C4_Witness ==
    /\ result.kind = "TrailerAlreadyDispatched"
    /\ \E ij \in Positions(current_locations) :
            /\ At(current_locations, ij).dispatched
            /\ At(current_locations, ij).seal_number = <<>>
            /\ At(current_locations, ij).trailer_number = <<>>

\* what an edit stores for an argument: nothing for None and for the empty
\* text, the digits for the number typed between blanks
Stored(text) == IF text \in {None, <<>>} THEN <<>> ELSE <<"7">>

\* C5 as stated: an edit call on an Active trailer leaves the previous value
\* of a field whose argument is empty or omitted.
C5_OmittedKeepsPrevious ==
    [][\A ij \in Positions(current_locations) : \A edit \in SampleEdits :
            (~At(current_locations, ij).dispatched /\ EditCallOn(ij, edit[1], edit[2])) =>
                /\ edit[1] \in {None, <<>>} =>
                        At(current_locations', ij).seal_number
                            = At(current_locations, ij).seal_number
                /\ edit[2] \in {None, <<>>} =>
                        At(current_locations', ij).trailer_number
                            = At(current_locations, ij).trailer_number]_vars

\* C5: an edit call on an Active trailer returns Updated and writes both
\* fields: seal_number and trailer_number each become the argument stripped
\* of surrounding blanks, and the empty text when the argument is empty or
\* omitted; nothing else of the relay changes.
C5_EditWritesBothFields ==
    [][\A ij \in Positions(current_locations) : \A edit \in SampleEdits :
            (~At(current_locations, ij).dispatched /\ EditCallOn(ij, edit[1], edit[2])) =>
                /\ result'.kind = "Updated"
                /\ current_locations' =
                        [current_locations EXCEPT ![ij[1]].trailers[ij[2]] =
                            [@ EXCEPT !.seal_number = Stored(edit[1]),
                                      !.trailer_number = Stored(edit[2])]]]_vars

\* an Active trailer edited twice: its seal typed, then cleared by an edit
\* that gave only the trailer number
C5_Witness ==
    /\ result.kind = "Updated"
    /\ \E ij \in Positions(current_locations) :
            /\ ~At(current_locations, ij).dispatched
            /\ At(current_locations, ij).seal_number = <<>>
            /\ At(current_locations, ij).trailer_number = <<"7">>

\* C6: a confirmed dispatch call that names a dispatched trailer returns
\* AlreadyDispatched and changes no field of any trailer; the
\* dispatch_timestamp of the first dispatch stays.
C6_RedispatchRefused ==
    [][\A ij \in Positions(current_locations) :
            (At(current_locations, ij).dispatched /\ DispatchCallOn(ij, TRUE)) =>
                /\ result'.kind = "AlreadyDispatched"
                /\ current_locations' = current_locations]_vars

\* a second dispatch refused at a later second than the first
C6_Witness ==
    /\ result.kind = "AlreadyDispatched"
    /\ \E ij \in Positions(current_locations) :
            /\ At(current_locations, ij).dispatched
            /\ At(current_locations, ij).dispatch_timestamp < now

\* C7: a dispatch call without confirmation changes no trailer, whatever
\* else it is given; with a relay and a trailer named it returns
\* DispatchCancelled.
C7_UnconfirmedDispatchIgnored ==
    [][/\ \A id \in SampleIdentifiers :
            dispatch_trailer_by_id(id, FALSE) =>
                /\ UNCHANGED <<current_locations, locations>>
                /\ (current_locations # <<>> /\ id # <<>>) =>
                        result'.kind = "DispatchCancelled"
       /\ \A name \in SampleNames, n \in SampleNumbers :
            dispatch_trailer_from_button(name, n, FALSE) =>
                /\ UNCHANGED <<current_locations, locations>>
                /\ current_locations # <<>> => result'.kind = "DispatchCancelled"]_vars

\* a dispatch cancelled while a trailer of the relay is Active
C7_Witness ==
    /\ result.kind = "DispatchCancelled"
    /\ \E ij \in Positions(current_locations) : ~At(current_locations, ij).dispatched

\* dispatch_timestamp is set exactly for the dispatched trailers of locs
TimestampIffDispatched(locs) ==
    \A ij \in Positions(locs) :
        (At(locs, ij).dispatch_timestamp # NoTimestamp) <=> At(locs, ij).dispatched

\* every trailer of locs is Active, without a timestamp
AllFresh(locs) ==
    \A ij \in Positions(locs) :
        ~At(locs, ij).dispatched /\ At(locs, ij).dispatch_timestamp = NoTimestamp

\* C8: the trailers of a relay just created are Active with a null
\* dispatch_timestamp; a confirmed dispatch call that names an Active
\* trailer returns Dispatched, sets dispatched and records the time of the
\* call; and in every reachable state a trailer's dispatch_timestamp is
\* non-null exactly when the trailer is dispatched.
C8_TimestampIffDispatched ==
    /\ [](TimestampIffDispatched(current_locations) /\ TimestampIffDispatched(locations))
    /\ [][/\ result'.kind = "RelayCreated" /\ CreateRelay => AllFresh(current_locations')
          /\ result'.kind = "AutomatedRelayCreated" /\ CreateAutomatedRelay
                => AllFresh(locations')
          /\ \A ij \in Positions(current_locations) :
                (~At(current_locations, ij).dispatched /\ DispatchCallOn(ij, TRUE)) =>
                    /\ result'.kind = "Dispatched"
                    /\ At(current_locations', ij).dispatched
                    /\ At(current_locations', ij).dispatch_timestamp = now
                    /\ now # NoTimestamp]_vars

\* a relay with one trailer dispatched, at the second second, and one Active
C8_Witness ==
    /\ result.kind = "Dispatched"
    /\ \E ij \in Positions(current_locations) :
            /\ At(current_locations, ij).dispatched
            /\ At(current_locations, ij).dispatch_timestamp = 2
    /\ \E ij \in Positions(current_locations) :
            /\ ~At(current_locations, ij).dispatched
            /\ At(current_locations, ij).dispatch_timestamp = NoTimestamp

\* the trailers of locs that are dispatched are there, dispatched, in after
StillDispatched(locs, after) ==
    \A ij \in Positions(locs) :
        At(locs, ij).dispatched => (ij \in Positions(after) /\ At(after, ij).dispatched)

\* C9: within one relay, dispatched is terminal: no edit call, dispatch call
\* or add_overload call takes a dispatched trailer back to Active (a step
\* after which a dispatched trailer is no longer dispatched is none of them).
C9_DispatchedIsTerminal ==
    [][~(StillDispatched(current_locations, current_locations')
            /\ StillDispatched(locations, locations'))
                => ~(EditOrDispatchCall \/ AddOverload)]_vars

\* a dispatched trailer after an add_overload call that found its trailer
C9_Witness ==
    /\ result.kind = "OverloadAdded"
    /\ \E ij \in Positions(current_locations) : At(current_locations, ij).dispatched

\* C3 as stated: with an edit and a dispatch of one trailer interleaved
\* statement by statement, no edit writes seal_number or trailer_number of a
\* trailer whose dispatched flag is already set.
C3_NoEditWriteAfterDispatch ==
    [][\A p \in Procs :
            (pc[p] \in {"edit_seal", "edit_trailer"} /\ pc'[p] # pc[p]) =>
                ~TheTrailer(p).dispatched]_vars

-----------------------------------------------------------------------------
(* The claims about create_order *)

\* the line names a product of the catalog and asks for at least one unit
ValidLine(item) ==
    /\ "product_number" \in DOMAIN item
    /\ item.product_number \in DOMAIN products
    /\ "units_ordered" \in DOMAIN item
    /\ item.units_ordered >= 1

ValidLines(order_items) == SelectSeq(order_items, ValidLine)

CallOf(call) == create_order(call[1], call[2], call[3], call[4])

RECURSIVE SumOver(_, _)
SumOver(items, f) == IF items = <<>> THEN 0 ELSE Head(items)[f] + SumOver(Tail(items), f)

\* every order the OrderSystem holds or has just returned
OrdersInState ==
    {orders[i] : i \in 1..Len(orders)}
        \cup (IF result.kind = "Order" THEN {result.order} ELSE {})

\* C11 as stated: in every line of an order create_order returns,
\* units_ordered is the smallest multiple of units_per_tray that is at least
\* the units requested, and trays_needed * units_per_tray = units_ordered.
C11_UnitsRoundedUp ==
    [][\A call \in SampleCalls :
            (CallOf(call) /\ result'.kind = "Order") =>
                /\ Len(result'.order.items) = Len(ValidLines(call[2]))
                /\ \A i \in 1..Len(result'.order.items) :
                    LET item == result'.order.items[i]
                        requested == ValidLines(call[2])[i].units_ordered
                    IN  /\ item.trays_needed * item.units_per_tray = item.units_ordered
                        /\ item.units_ordered >= requested
                        /\ \A smaller \in requested..(item.units_ordered - 1) :
                                \A k \in 0..smaller : k * item.units_per_tray # smaller]_vars

\* C12: in every order create_order returned (the stored ones and the one
\* just returned), total_trays is the sum of trays_needed over its items and
\* total_stacks the sum of stacks_needed, skipped lines or not.
C12_TotalsAreSums ==
    \A order \in OrdersInState :
        /\ order.total_trays = SumOver(order.items, "trays_needed")
        /\ order.total_stacks = SumOver(order.items, "stacks_needed")

\* an order of two lines, 24 and 13 units of product 101, made from a
\* request of five lines of which three were skipped
C12_Witness ==
    /\ result.kind = "Order"
    /\ Len(result.order.items) = 2
    /\ result.order.total_trays = 4
    /\ result.order.total_stacks = 2
    /\ result.order.items[2].units_ordered = 24

\* C13: a create_order call of which no line is valid (an unknown product or
\* no positive units in every line, or no line) returns None as an empty
\* order, and the stored orders are as before the call.
C13_EmptyOrderRefused ==
    [][\A call \in SampleCalls :
            (call[1] \in DOMAIN routes /\ ValidLines(call[2]) = <<>> /\ CallOf(call)) =>
                /\ result'.kind = "NoValidItems"
                /\ orders' = orders]_vars

\* an empty order refused while an earlier order is stored
C13_Witness ==
    /\ result.kind = "NoValidItems"
    /\ orders # <<>>

\* C14: a create_order call with a line for an unknown product and at least
\* one valid line returns an Order whose items are the valid lines, one item
\* per valid line in the order requested.
C14_UnknownProductSkipped ==
    [][\A call \in SampleCalls :
            (/\ call[1] \in DOMAIN routes
             /\ \E i \in 1..Len(call[2]) : call[2][i].product_number \notin DOMAIN products
             /\ ValidLines(call[2]) # <<>>
             /\ CallOf(call)) =>
                /\ result'.kind = "Order"
                /\ Len(result'.order.items) = Len(ValidLines(call[2]))
                /\ \A i \in 1..Len(result'.order.items) :
                    /\ result'.order.items[i].product_number
                            = ValidLines(call[2])[i].product_number
                    /\ result'.order.items[i].units_ordered
                            >= ValidLines(call[2])[i].units_ordered
                    /\ result'.order.items[i].units_ordered
                            < ValidLines(call[2])[i].units_ordered
                                + result'.order.items[i].units_per_tray]_vars

\* the order of day 3: one item, the 24 units of product 101 that followed
\* the line of the unknown product 999
C14_Witness ==
    /\ result.kind = "Order"
    /\ result.order.order_id[2] = "D"
    /\ result.order.order_id[3] = "3"
    /\ Len(result.order.items) = 1
    /\ result.order.items[1].product_number = 101
    /\ result.order.items[1].units_ordered = 24

\* C16 as stated: create_order and calculate_order_quantities never divide
\* by a units_per_tray or stack_height that is 0 or negative, and no order
\* holds a line of a product with such a value.
C16_InvalidProductSpecRefused ==
    /\ result.kind # "ZeroDivisionError"
    /\ \A order \in OrdersInState : \A i \in 1..Len(order.items) :
            order.items[i].units_per_tray >= 1 /\ order.items[i].stack_height >= 1

\* C17 as stated: no order carrying a day tag outside {1, 2, 4, 5, 6} is
\* created or stored.
C17_InvalidDayTagRefused ==
    \A order \in OrdersInState :
        order.order_id[2] = "D" => order.order_id[3] \in {"1", "2", "4", "5", "6"}

\* C18 as stated: the collection of orders is the same after a successful
\* create_order call as before it.
C18_NoStoredOrder ==
    [][\A call \in SampleCalls :
            (CallOf(call) /\ result'.kind = "Order") => orders' = orders]_vars

\* C18: create_order changes nothing but the collection of orders: a
\* successful call stores the Order it returns under its order_id, added
\* at the end or in the place of the stored order that has the same
\* order_id, and leaves every other stored order as it was; a call that
\* returns no Order leaves the collection as it was.
C18_ReturnedOrderStored ==
    [][\A call \in SampleCalls :
            CallOf(call) =>
                /\ UNCHANGED <<products, current_locations, locations, now>>
                /\ result'.kind # "Order" => orders' = orders
                /\ result'.kind = "Order" =>
                    LET id == result'.order.order_id
                        had == {i \in 1..Len(orders) : orders[i].order_id = id}
                    IN  /\ Len(orders') = IF had = {} THEN Len(orders) + 1 ELSE Len(orders)
                        /\ \A i \in 1..Len(orders) :
                                orders'[i] = IF i \in had THEN result'.order ELSE orders[i]
                        /\ had = {} => orders'[Len(orders')] = result'.order
                        /\ Cardinality({i \in 1..Len(orders') : orders'[i].order_id = id})
                                = 1]_vars

\* two successful calls in one second: the order of route 5539 stored in the
\* place of the order of route 6278, which had the same order_id
C18_Witness ==
    /\ result.kind = "Order"
    /\ result.order.route_id = 5539
    /\ result.order.order_id = OrderId(0, 1)
    /\ Len(orders) = 1
    /\ orders[1] = result.order
    /\ now = 1

-----------------------------------------------------------------------------
(* The claims about calculate_order_quantities and the catalog *)

\* C15 as stated: what calculate_order_quantities returns for a product
\* number that is not in the catalog differs from every pair it returns for
\* a product of the catalog, the pair for 0 units included.
C15_UnknownProductDistinct ==
    (result.kind = "Quantities" /\ input.product_number \notin DOMAIN products) =>
        \A pn \in DOMAIN products : \A units \in 0..MaxUnits :
            <<result.trays_needed, result.stacks_needed>>
                # <<Ceil(units, products[pn].units_per_tray),
                    Ceil(Ceil(units, products[pn].units_per_tray), products[pn].stack_height)>>

-----------------------------------------------------------------------------
(* The claims about the two relay generations *)

\* the orders of the batch filed under exactly this location string
OrdersNamed(batch, name) ==
    LET Named(order) == order.location = name
    IN  SelectSeq(batch, Named)

StacksOf(loc) == [j \in 1..Len(loc.trailers) |-> loc.trailers[j].stacks]

\* C19: the locations either relay generation makes of a batch are a
\* partition of its orders by the exact location string: no two locations
\* have the same name, every location has at least one order of the batch,
\* a location holds exactly the orders with its name, in their input order
\* (so names that differ in case or by a blank stay apart), and every order
\* of the batch is in exactly one location.
C19_GroupingIsPartition ==
    /\ \A k, l \in 1..Len(locations) : locations[k].name = locations[l].name => k = l
    /\ \A k \in 1..Len(locations) :
            /\ locations[k].orders # <<>>
            /\ locations[k].orders = OrdersNamed(orders, locations[k].name)
    /\ locations # <<>> =>
            \A i \in 1..Len(orders) :
                Cardinality({k \in 1..Len(locations) :
                                \E j \in 1..Len(locations[k].orders) :
                                    locations[k].orders[j] = orders[i]}) = 1
    /\ \A k, l \in 1..Len(current_locations) :
            current_locations[k].name = current_locations[l].name => k = l
    /\ \A k \in 1..Len(current_locations) :
            /\ OrdersNamed(orders, current_locations[k].name) # <<>>
            /\ current_locations[k].bread_trays
                    = SumOver(OrdersNamed(orders, current_locations[k].name), "total_trays")
            /\ current_locations[k].total_stacks
                    = SumOver(OrdersNamed(orders, current_locations[k].name), "total_stacks")
    /\ current_locations # <<>> =>
            \A i \in 1..Len(orders) :
                \E k \in 1..Len(current_locations) :
                    current_locations[k].name = orders[i].location

\* a batch for the locations "A", "a" and "A ", grouped by both generations
C19_Witness ==
    /\ Len(orders) = 3
    /\ Len(locations) = 3
    /\ Len(current_locations) = 3
    /\ {locations[k].name : k \in 1..3} = {<<"A">>, <<"a">>, <<"A", " ">>}
    /\ {current_locations[k].name : k \in 1..3} = {<<"A">>, <<"a">>, <<"A", " ">>}

\* C20: generated from the same batch of orders, the relay of
\* create_automated_relay (Location.from_orders, from the lines'
\* stacks_needed) and the relay of create_relay_from_orders_data (from the
\* orders' stored total_stacks) have the same locations, each with the same
\* total_stacks and the same sequence of trailer numbers and stacks.
C20_GenerationsAgree ==
    (locations # <<>> /\ current_locations # <<>>) =>
        /\ Len(locations) = Len(current_locations)
        /\ \A k \in 1..Len(locations) :
                /\ locations[k].name = current_locations[k].name
                /\ locations[k].total_stacks = current_locations[k].total_stacks
                /\ StacksOf(locations[k]) = StacksOf(current_locations[k])
                /\ \A j \in 1..Len(locations[k].trailers) :
                        locations[k].trailers[j].number
                            = current_locations[k].trailers[j].number

\* both relays made of a batch of two locations, one with 200 stacks on
\* three trailers
C20_Witness ==
    /\ Len(locations) = 2
    /\ Len(current_locations) = 2
    /\ \E k \in 1..2 :
            /\ locations[k].total_stacks = 200
            /\ StacksOf(current_locations[k]) = <<98, 98, 4>>

-----------------------------------------------------------------------------
(* The allocation as a sequence *)

\* the numbers of a location's trailers, in list order
NumbersOf(loc) == [j \in 1..Len(loc.trailers) |-> loc.trailers[j].number]

\* the greedy reference: trailer i holds min(98, total_stacks - 98 * (i - 1))
GreedyStacks(total_stacks) ==
    [i \in 1..((total_stacks + 97) \div 98) |-> Min(98, total_stacks - 98 * (i - 1))]

\* C21: the trailer list one assign_trailers call produces on a Location
\* without trailers is in ascending number order without gaps or repeats,
\* the i-th trailer having number i and min(98, total_stacks - 98 * (i - 1))
\* stacks: every trailer but the last holds 98, a multiple of 98 gives full
\* trailers only (150 gives 98, 52; 196 gives 98, 98; 0 gives none).
C21_GreedySequence ==
    result.calls = 1 =>
        LET loc == location[1]
            n == Len(loc.trailers)
        IN  /\ NumbersOf(loc) = [i \in 1..n |-> i]
            /\ StacksOf(loc) = GreedyStacks(loc.total_stacks)
            /\ \A i \in 1..(n - 1) : loc.trailers[i].stacks = 98
            /\ \A i \in 1..n : loc.trailers[i].stacks > 0
            /\ loc.total_stacks = 150 => StacksOf(loc) = <<98, 52>>
            /\ loc.total_stacks = 196 => StacksOf(loc) = <<98, 98>>
            /\ loc.total_stacks = 0 => StacksOf(loc) = <<>>

\* 196 stacks allocated by one call: two full trailers, numbered 1 and 2
C21_Witness ==
    /\ result.kind = "AssignTrailers"
    /\ result.calls = 1
    /\ location[1].total_stacks = 196
    /\ StacksOf(location[1]) = <<98, 98>>
    /\ NumbersOf(location[1]) = <<1, 2>>

\* C22: within one relay generation run the load numbers (ld_number) of all
\* the trailers created, over all the locations of the relay, are pairwise
\* distinct.
C22_LoadNumbersDistinct ==
    \A ij \in Positions(current_locations), kl \in Positions(current_locations) :
        ij # kl => At(current_locations, ij).ld_number # At(current_locations, kl).ld_number

-----------------------------------------------------------------------------
(* Regeneration *)

\* name, trailer numbers and trailer stacks of every location of a relay
Shape(locs) ==
    [k \in 1..Len(locs) |-> <<locs[k].name, NumbersOf(locs[k]), StacksOf(locs[k])>>]

\* the relay a first generation from orders_data gives
FirstRelay(orders_data) ==
    create_relay_from_orders_data(orders_data, DistinctDraws(Len(orders_data)))

\* the relay a first create_automated_relay(date) gives
FirstAutomatedRelay(date) ==
    LET groups == OrderGroups(get_orders_by_date(date))
    IN  [k \in 1..Len(groups) |->
            from_orders(groups[k][1], groups[k][2], DistinctDraws(Len(orders))[k])]

\* C23: generating a relay again from the same unchanged batch gives, for
\* every location, trailers with the same stacks sequence and the same
\* numbers as the first generation gave, whatever edits, dispatches or
\* overload notes the first relay received in between; this for the relay of
\* create_relay and for the relay of create_automated_relay.
C23_RegenerationIdempotent ==
    [][/\ (result' = Ret("RelayCreated") /\ now' = now /\ current_locations # <<>>) =>
            \A orders_data \in SampleOrdersData :
                (/\ Shape(current_locations) = Shape(FirstRelay(orders_data))
                 /\ create_relay(orders_data, DistinctDraws(Len(orders_data))))
                    => Shape(current_locations') = Shape(current_locations)
       /\ (result' = Ret("AutomatedRelayCreated") /\ now' = now /\ locations # <<>>) =>
            \A date \in SampleDates :
                (/\ Shape(locations) = Shape(FirstAutomatedRelay(date))
                 /\ create_automated_relay(date, DistinctDraws(Len(orders))))
                    => Shape(locations') = Shape(locations)]_vars

\* the relay of the batch of two orders for location A, its first trailer
\* dispatched and its second edited, and the relay of the stored orders with
\* an overload note: the relays a second generation replaces
C23_Witness ==
    /\ Shape(current_locations) = <<<<LocA, <<1, 2>>, <<98, 52>>>>>>
    /\ current_locations[1].trailers[1].dispatched
    /\ current_locations[1].trailers[2].seal_number = <<"7">>
    /\ Shape(locations) = <<<<LocA, <<1>>, <<40>>>>>>
    /\ locations[1].trailers[1].overload_from # <<>>

-----------------------------------------------------------------------------
(* Independence of the trailers *)

\* every trailer of the current relay but the one at ij is after the step
\* what it was before, and the relay keeps its locations and their lengths
OthersUntouched(ij) ==
    /\ Len(current_locations') = Len(current_locations)
    /\ \A i \in 1..Len(current_locations) :
        /\ current_locations'[i].name = current_locations[i].name
        /\ Len(current_locations'[i].trailers) = Len(current_locations[i].trailers)
    /\ \A kl \in Positions(current_locations) :
        kl # ij => At(current_locations', kl) = At(current_locations, kl)

\* C24: an edit or a dispatch addressed to one trailer, by location name and
\* number or by identifier, leaves every other trailer of the same and of the
\* other locations as it was (seal_number, trailer_number, dispatched,
\* dispatch_timestamp, stacks and all the rest); a call that names no trailer
\* leaves all of them; and a confirmed dispatch of an Active trailer
\* dispatches it whatever the state of the other trailers, so the trailers
\* of a location can be dispatched in any order.
C24_TrailersIndependent ==
    [][/\ current_locations' # current_locations =>
            /\ \A ij \in Positions(current_locations) :
                ((\E edit \in SampleEdits : EditCallOn(ij, edit[1], edit[2]))
                    \/ DispatchCallOn(ij, TRUE)) => OthersUntouched(ij)
            /\ EditOrDispatchCall =>
                \E ij \in Positions(current_locations) : OthersUntouched(ij)
       /\ (current_locations' = current_locations /\ now' = now /\ locations' = locations) =>
            \A ij \in Positions(current_locations) :
                ~At(current_locations, ij).dispatched => ~DispatchCallOn(ij, TRUE)]_vars

\* location A's second trailer dispatched before its first, which alone
\* carries a seal number
C24_Witness ==
    /\ Len(current_locations) = 1
    /\ Len(current_locations[1].trailers) = 2
    /\ current_locations[1].trailers[1].dispatched
    /\ current_locations[1].trailers[2].dispatched
    /\ current_locations[1].trailers[2].dispatch_timestamp
            < current_locations[1].trailers[1].dispatch_timestamp
    /\ current_locations[1].trailers[1].seal_number = <<"7">>
    /\ current_locations[1].trailers[2].seal_number = <<>>

-----------------------------------------------------------------------------
(* The orders files *)

\* the derived fields of every order and line are what their inputs give
Rederived(os) ==
    \A i \in 1..Len(os) :
        /\ \A j \in 1..Len(os[i].items) :
            LET item == os[i].items[j]
            IN  /\ item.trays_needed = Ceil(item.units_ordered, item.units_per_tray)
                /\ item.stacks_needed = Ceil(item.trays_needed, item.stack_height)
        /\ os[i].total_trays = SumOver(os[i].items, "trays_needed")
        /\ os[i].total_stacks = SumOver(os[i].items, "stacks_needed")

-----------------------------------------------------------------------------
(* The order id *)

\* C26: the generated order id is an identity: every successful
\* create_order call, calls within one clock second included, adds an order
\* under an id no stored order has, so that the stored orders are one more
\* and every order stored before is still there, retrievable by get_order
\* and get_all_orders; no created order is overwritten by a later one.
C26_OrderIdIsIdentity ==
    [][(result'.kind = "Order" /\ now' = now) =>
            /\ Len(orders') = Len(orders) + 1
            /\ \A i \in 1..Len(orders) : orders'[i] = orders[i]]_vars

-----------------------------------------------------------------------------
(* Repeated allocation *)

\* C27: after one or more assign_trailers calls on the same Location its
\* trailers are still numbered 1..n without repeats and their stacks still
\* sum to total_stacks: running the allocation again duplicates no load.
C27_ReallocationKeepsLoad ==
    result.calls >= 1 =>
        /\ NumbersOf(location[1]) = [i \in 1..Len(location[1].trailers) |-> i]
        /\ SumStacks(location[1].trailers) = location[1].total_stacks

-----------------------------------------------------------------------------
(* Two dispatches at once *)

\* C28: of two confirmed dispatch calls for the same Active trailer that run
\* interleaved, at most one dispatches it and reports success, the other
\* finding it dispatched, and dispatch_timestamp is written once: a call
\* sets the dispatched flag only of a trailer that is Active at that moment,
\* and writes the timestamp only of a trailer that has none.
C28_OneDispatchWins ==
    [][\A p \in Dispatchers :
            /\ (pc[p] = "dispatch_flag" /\ pc'[p] # pc[p]) => ~TheTrailer(p).dispatched
            /\ (pc[p] = "dispatch_time" /\ pc'[p] # pc[p]) =>
                    TheTrailer(p).dispatch_timestamp = NoTimestamp]_vars

-----------------------------------------------------------------------------
(* The structure of a relay *)

\* what the allocation gave a relay: per location the numbers, stacks and
\* load numbers of its trailers, in list order
Structure(locs) ==
    [k \in 1..Len(locs) |->
        [j \in 1..Len(locs[k].trailers) |->
            <<locs[k].trailers[j].number, locs[k].trailers[j].stacks,
              locs[k].trailers[j].ld_number>>]]

\* every trailer holds 1..98 stacks and a location's trailers hold its total_stacks
WellAllocated(locs) ==
    \A k \in 1..Len(locs) :
        /\ \A j \in 1..Len(locs[k].trailers) :
            0 < locs[k].trailers[j].stacks /\ locs[k].trailers[j].stacks <= 98
        /\ SumStacks(locs[k].trailers) = locs[k].total_stacks

\* C29: in every state reached from a generated relay by edit, dispatch and
\* add_overload calls each location's trailer list has the length, numbers,
\* stacks and ld_number values the generation gave it (no such call changes
\* them), every trailer holds 0 < stacks <= 98 and the stacks of a location
\* sum to its total_stacks; add_overload changes nothing but overload_from
\* of the one trailer it names, and nothing at all when the location or the
\* trailer number is not found.
C29_StructurePreserved ==
    /\ [](WellAllocated(current_locations) /\ WellAllocated(locations))
    /\ [][/\ (Structure(current_locations') # Structure(current_locations)
                \/ Structure(locations') # Structure(locations))
                    => ~(EditOrDispatchCall \/ AddOverload)
          /\ (current_locations' = current_locations /\ now' = now) =>
                \A name \in SampleNames, n \in SampleNumbers, overload \in SampleOverloads :
                    add_overload(name, n, overload) =>
                        LET ij == FindTrailer(locations, name, n)
                        IN  IF ij = <<0, 0>>
                            THEN locations' = locations
                            ELSE /\ At(locations', ij) =
                                        [At(locations, ij) EXCEPT !.overload_from = overload]
                                 /\ \A k \in 1..Len(locations) :
                                        /\ [locations'[k] EXCEPT !.trailers = <<>>]
                                                = [locations[k] EXCEPT !.trailers = <<>>]
                                        /\ Len(locations'[k].trailers) = Len(locations[k].trailers)
                                 /\ \A kl \in Positions(locations) :
                                        kl # ij => At(locations', kl) = At(locations, kl)]_vars

\* an overload note on the trailer of the stored orders' relay, beside a
\* relay of two locations whose trailer of B is sealed and dispatched
C29_Witness ==
    /\ result = Ret("OverloadAdded")
    /\ Len(locations) = 1
    /\ locations[1].trailers[1].overload_from = <<LocB, 5>>
    /\ locations[1].trailers[1].stacks = 40
    /\ Len(current_locations) = 2
    /\ current_locations[2].trailers[1].dispatched
    /\ current_locations[2].trailers[1].seal_number = <<"7">>
    /\ current_locations[2].trailers[1].stacks = 98

-----------------------------------------------------------------------------
(* create_automated_relay and the date *)

\* C30: create_automated_relay for a date without orders returns the empty
\* list and leaves RelaySystem.locations as it was, so that the relay
\* generated before, with what its trailers carry, stays current; for a date
\* with at least one order it replaces locations by newly allocated
\* locations, one per location name of that date's orders, whose trailers
\* are all Active with empty trailer_number and seal_number.
C30_EmptyDateKeepsRelay ==
    [][(current_locations' = current_locations /\ now' = now) =>
            \A date \in SampleDates :
                create_automated_relay(date, DistinctDraws(Len(orders))) =>
                    IF get_orders_by_date(date) = <<>>
                    THEN /\ result' = Ret("NoOrdersForDate")
                         /\ locations' = locations
                    ELSE /\ result' = Ret("AutomatedRelayCreated")
                         /\ locations' # <<>>
                         /\ AllFresh(locations')
                         /\ \A k \in 1..Len(locations') :
                                /\ locations'[k].orders # <<>>
                                /\ \A i \in 1..Len(locations'[k].orders) :
                                    /\ locations'[k].orders[i].location = locations'[k].name
                                    /\ FirstWord(locations'[k].orders[i].order_date) = date
                         /\ \A ij \in Positions(locations') :
                                /\ At(locations', ij).trailer_number = <<>>
                                /\ At(locations', ij).seal_number = <<>>
                                /\ At(locations', ij).overload_from = <<>>]_vars

\* the relay generated before, with its overload note, after a call for a
\* date without orders
C30_Witness ==
    /\ result = Ret("NoOrdersForDate")
    /\ locations # <<>>
    /\ locations[1].trailers[1].overload_from = <<LocB, 5>>

====
